---- MODULE Spec2Model ----
(***************************************************************************)
(* A state-machine model of the ONVIF proxy gateway: the route handlers    *)
(* (server/routes.rs), the SOAP envelope parser (onvif/soap.rs), the       *)
(* transport client (camera/client.rs) and the subscription and polling    *)
(* engine (onvif/events.rs).                                               *)
(*                                                                         *)
(* XML text is modelled as the sequence of tokens the quick_xml reader     *)
(* yields for it; element text is a sequence of one-character strings.     *)
(* Time is a millisecond clock.                                            *)
(***************************************************************************)
EXTENDS Integers, Sequences, FiniteSets, TLC

VARIABLES
    subscriptions,   \* EventsService.subscriptions: ref -> Subscription record
    event_cache,     \* Subscription.event_cache of every reference ever issued
    cache_lock,      \* holder of the write lock of each event cache, or "free"
    poller,          \* the background task of each reference (pc and locals)
    motion,          \* camera side: the motion alarm state of each camera
    task,            \* the handler tasks of the HTTP worker pool
    now,             \* wall clock, in milliseconds
    requests,        \* number of client requests accepted so far
    delivered,       \* per reference: highest sequence number in a returned response
    calc             \* a call of a pure function: its input and what it returned

vars == <<subscriptions, event_cache, cache_lock, poller, motion, task, now,
          requests, delivered, calc>>

-----------------------------------------------------------------------------
(* Bounds of the model.                                                    *)

MaxRequests == 3
MaxTime == 1500
MaxCacheAppends == 102
MaxDigits == 9
MaxChildren == 2
MaxTopics == 2
MaxQuirks == 2
MaxAddrs == 2
MaxHeaders == 3
MaxClock == 2
MaxCut == 3

(* Constants of the program.                                               *)

CacheCapacity == 100
PollIntervalMs == 500
CheckIntervalMs == 100
LifetimeSecs == 600
DefaultMessageLimit == 10
DefaultTimeoutSecs == 1

-----------------------------------------------------------------------------
(* XML tokens.  k: "Start" | "End" | "Empty" | "Text" | "Bad" (a place     *)
(* where the reader reports a syntax error); p: namespace prefix; n: local *)
(* name; a: attributes as <<key, value>> pairs; t: text as characters.     *)

St(p, n, a) == [k |-> "Start", p |-> p, n |-> n, a |-> a, t |-> <<>>]
En(p, n)    == [k |-> "End",   p |-> p, n |-> n, a |-> <<>>, t |-> <<>>]
Em(p, n, a) == [k |-> "Empty", p |-> p, n |-> n, a |-> a, t |-> <<>>]
Tx(t)       == [k |-> "Text",  p |-> "", n |-> "", a |-> <<>>, t |-> t]
BadToken    == [k |-> "Bad",   p |-> "", n |-> "", a |-> <<>>, t |-> <<>>]

\* BytesStart::name(): the qualified name, prefix included
QName(tok) == <<tok.p, tok.n>>

\* BytesStart::local_name(): the name with the prefix stripped
LocalName(tok) == tok.n

-----------------------------------------------------------------------------
(* The quick_xml reader: one event per token.  With the default            *)
(* check_end_names, an end tag that does not close the innermost open      *)
(* element is an error; the end of input is not, even with elements open.  *)

\* Reader::read_event_into at token i with the open-element stack `stack`
ReadEvent(doc, i, stack) ==
    IF i > Len(doc) THEN [ev |-> "Eof", stack |-> stack]
    ELSE LET tok == doc[i] IN
         CASE tok.k = "Bad" -> [ev |-> "Err", stack |-> stack]
           [] tok.k = "Start" -> [ev |-> "Start", stack |-> <<QName(tok)>> \o stack]
           [] tok.k = "End" ->
                IF stack # <<>> /\ Head(stack) = QName(tok)
                THEN [ev |-> "End", stack |-> Tail(stack)]
                ELSE [ev |-> "Err", stack |-> stack]
           [] OTHER -> [ev |-> tok.k, stack |-> stack]

\* attribute keys that start with "xmlns"
IsXmlnsKey(key) == key \in {"xmlns", "xmlns:SOAP-ENV", "xmlns:tds", "xmlns:trt",
                            "xmlns:tr2", "xmlns:tev", "xmlns:tt"}

\* the (key, value) pairs among `attrs` whose key starts with "xmlns", in order
XmlnsAttrs(attrs) == SelectSeq(attrs, LAMBDA kv : IsXmlnsKey(kv[1]))

NoHeader == [some |-> FALSE, raw_xml |-> <<>>]
NoBody == [some |-> FALSE, action |-> "", content |-> <<>>, raw_xml |-> <<>>]

ParseErr(msg) == [ok |-> FALSE, error |-> msg, header |-> NoHeader, body |-> NoBody,
                  namespaces |-> <<>>]

\* the state of SoapEnvelope::parse before the first event
ParseStart == [i |-> 1, stack |-> <<>>, mode |-> "main", depth |-> 0,
               namespaces |-> <<>>, header |-> NoHeader, body |-> NoBody,
               raw_xml |-> <<>>, action |-> "", content |-> <<>>, capture |-> FALSE]

\* one iteration of the loop of SoapEnvelope::parse
ParseMainEvent(ps, tok, r) ==
    LET nx == [ps EXCEPT !.i = ps.i + 1, !.stack = r.stack] IN
    IF r.ev = "Start" THEN
        IF QName(tok) = <<"", "Envelope">>
        THEN [nx EXCEPT !.namespaces = ps.namespaces \o XmlnsAttrs(tok.a)]
        ELSE IF QName(tok) = <<"", "Header">>
        THEN [nx EXCEPT !.mode = "header", !.depth = 1, !.raw_xml = <<>>]
        ELSE IF QName(tok) = <<"", "Body">>
        THEN [nx EXCEPT !.mode = "body", !.depth = 1, !.raw_xml = <<>>,
                        !.action = "", !.content = <<>>, !.capture = FALSE]
        ELSE nx
    ELSE nx

\* one iteration of the loop of SoapEnvelope::parse_header; at depth 0 or at
\* the end of input the header is complete and control returns to parse
ParseHeaderEvent(ps, tok, r) ==
    LET nx == [ps EXCEPT !.i = ps.i + 1, !.stack = r.stack]
        done == [some |-> TRUE, raw_xml |-> ps.raw_xml] IN
    CASE r.ev = "Start" ->
            [nx EXCEPT !.depth = ps.depth + 1,
                       !.raw_xml = Append(ps.raw_xml, St(tok.p, tok.n, tok.a))]
      [] r.ev = "End" ->
            IF ps.depth - 1 = 0
            THEN [nx EXCEPT !.mode = "main", !.depth = 0, !.header = done]
            ELSE [nx EXCEPT !.depth = ps.depth - 1,
                            !.raw_xml = Append(ps.raw_xml, En(tok.p, tok.n))]
      [] r.ev = "Text" -> [nx EXCEPT !.raw_xml = Append(ps.raw_xml, Tx(tok.t))]
      [] r.ev = "Eof" -> [ps EXCEPT !.mode = "main", !.header = done]
      [] OTHER -> nx

\* one iteration of the loop of SoapEnvelope::parse_body
ParseBodyEvent(ps, tok, r) ==
    LET nx == [ps EXCEPT !.i = ps.i + 1, !.stack = r.stack]
        done == [some |-> TRUE, action |-> ps.action, content |-> ps.content,
                 raw_xml |-> ps.raw_xml] IN
    CASE r.ev = "Start" ->
            LET d == ps.depth + 1 IN
            [nx EXCEPT !.depth = d,
                       !.action = IF d = 2 THEN LocalName(tok) ELSE ps.action,
                       !.capture = IF d = 2 THEN TRUE ELSE ps.capture,
                       !.raw_xml = Append(ps.raw_xml, St("", LocalName(tok), tok.a))]
      [] r.ev = "End" ->
            IF ps.depth - 1 = 0
            THEN [nx EXCEPT !.mode = "main", !.depth = 0, !.body = done]
            ELSE [nx EXCEPT !.depth = ps.depth - 1,
                            !.raw_xml = Append(ps.raw_xml, En("", LocalName(tok)))]
      [] r.ev = "Text" ->
            [nx EXCEPT !.raw_xml = Append(ps.raw_xml, Tx(tok.t)),
                       !.content = IF ps.capture THEN ps.content \o tok.t
                                   ELSE ps.content]
      [] r.ev = "Eof" -> [ps EXCEPT !.mode = "main", !.body = done]
      [] OTHER -> nx

RECURSIVE ParseFrom(_, _)
ParseFrom(doc, ps) ==
    LET r == ReadEvent(doc, ps.i, ps.stack)
        tok == IF ps.i <= Len(doc) THEN doc[ps.i] ELSE BadToken IN
    IF r.ev = "Err" THEN
        ParseErr(CASE ps.mode = "header" -> "Header parsing error"
                   [] ps.mode = "body" -> "Body parsing error"
                   [] OTHER -> "XML parsing error")
    ELSE IF ps.mode = "header" THEN ParseFrom(doc, ParseHeaderEvent(ps, tok, r))
    ELSE IF ps.mode = "body" THEN ParseFrom(doc, ParseBodyEvent(ps, tok, r))
    ELSE IF r.ev = "Eof" THEN
        IF ps.body.some
        THEN [ok |-> TRUE, error |-> "", header |-> ps.header, body |-> ps.body,
              namespaces |-> ps.namespaces]
        ELSE ParseErr("SOAP Body not found")
    ELSE ParseFrom(doc, ParseMainEvent(ps, tok, r))

\* a faulty variant of Parse: a missing Body yields an envelope with an empty body
Parse_DefaultBody(doc) ==
    LET r == ParseFrom(doc, ParseStart) IN
    IF r.error = "SOAP Body not found" THEN [r EXCEPT !.ok = TRUE] ELSE r

\* SoapEnvelope::parse
Parse(doc) == ParseFrom(doc, ParseStart)

\* SoapEnvelope::extract_action
ExtractAction(envelope) == envelope.body.action

\* the XML declaration, which the reader reports as an event of its own
Decl == [k |-> "Decl", p |-> "", n |-> "", a |-> <<>>, t |-> <<>>]

\* SoapEnvelope::to_xml: the declaration, a SOAP-ENV:Envelope with the stored
\* namespaces, the header's raw XML if there is a header, the body's raw XML
to_xml(envelope) ==
    <<Decl, St("SOAP-ENV", "Envelope", envelope.namespaces)>>
    \o (IF envelope.header.some
        THEN <<St("SOAP-ENV", "Header", <<>>)>> \o envelope.header.raw_xml
                \o <<En("SOAP-ENV", "Header")>>
        ELSE <<>>)
    \o <<St("SOAP-ENV", "Body", <<>>)>> \o envelope.body.raw_xml
    \o <<En("SOAP-ENV", "Body"), En("SOAP-ENV", "Envelope")>>

-----------------------------------------------------------------------------
(* Text helpers of the handlers.                                           *)

DigitValue(c) ==
    CASE c = "0" -> 0 [] c = "1" -> 1 [] c = "2" -> 2 [] c = "3" -> 3 [] c = "4" -> 4
      [] c = "5" -> 5 [] c = "6" -> 6 [] c = "7" -> 7 [] c = "8" -> 8 [] c = "9" -> 9
      [] OTHER -> -1

RECURSIVE DigitsValue(_, _)
\* value of a run of decimal digits, or -1 if a character is no digit
DigitsValue(chars, acc) ==
    IF chars = <<>> THEN acc
    ELSE IF DigitValue(Head(chars)) < 0 THEN -1
    ELSE DigitsValue(Tail(chars), 10 * acc + DigitValue(Head(chars)))

NoInt == [ok |-> FALSE, v |-> 0]

\* str::parse::<i32>() and ::<i64>(): optional sign, at least one digit.  The
\* inputs of the model have at most MaxDigits digits, which fit both widths.
ParseInt(chars) ==
    LET signed == chars # <<>> /\ Head(chars) \in {"+", "-"}
        digits == IF signed THEN Tail(chars) ELSE chars
        mag == IF digits = <<>> \/ Len(digits) > MaxDigits THEN -1
               ELSE DigitsValue(digits, 0)
        v == IF signed /\ Head(chars) = "-" THEN 0 - mag ELSE mag IN
    IF mag < 0 THEN NoInt ELSE [ok |-> TRUE, v |-> v]

\* a faulty variant of BelowLimit: the comparison is turned around
BelowLimit_Reversed(len, limit) == IF limit < 0 THEN FALSE ELSE len > limit

\* `len < (limit as usize)`: a negative i32 wraps to a value above every length
BelowLimit(len, limit) == IF limit < 0 THEN TRUE ELSE len < limit

\* `elapsed_secs < (timeout_secs as u64)`, likewise for a negative i64
BelowTimeout(elapsed_secs, timeout_secs) ==
    IF timeout_secs < 0 THEN TRUE ELSE elapsed_secs < timeout_secs

\* a faulty variant of parse_iso_duration: minutes are taken for seconds
parse_iso_duration_MinutesAsSeconds(duration) ==
    IF Len(duration) < 2 \/ duration[1] # "P" \/ duration[2] # "T" THEN NoInt
    ELSE LET rest == SubSeq(duration, 3, Len(duration))
             num == ParseInt(SubSeq(rest, 1, Len(rest) - 1)) IN
         IF rest = <<>> THEN NoInt
         ELSE IF rest[Len(rest)] \in {"S", "M"} THEN num
         ELSE NoInt

\* EventsService::parse_iso_duration: PT<n>S, PT<n>M, anything else None
parse_iso_duration(duration) ==
    IF Len(duration) < 2 \/ duration[1] # "P" \/ duration[2] # "T" THEN NoInt
    ELSE LET rest == SubSeq(duration, 3, Len(duration))
             num == ParseInt(SubSeq(rest, 1, Len(rest) - 1)) IN
         IF rest = <<>> THEN NoInt
         ELSE IF rest[Len(rest)] = "S" THEN num
         ELSE IF rest[Len(rest)] = "M"
              THEN IF num.ok THEN [ok |-> TRUE, v |-> num.v * 60] ELSE NoInt
         ELSE NoInt

RECURSIVE FlatText(_)
\* the text between two tags; markup in between is no part of a number or duration
FlatText(toks) ==
    IF toks = <<>> THEN <<>>
    ELSE (IF Head(toks).k = "Text" THEN Head(toks).t ELSE <<"<">>) \o FlatText(Tail(toks))

\* str::find: the least index of a set of hits, or 0 for none
FirstIndex(hits) ==
    IF hits = {} THEN 0 ELSE CHOOSE i \in hits : \A j \in hits : i <= j

NoValue == [some |-> FALSE, v |-> <<>>]

\* extract_value for one spelling of the tag: the text from the first
\* "<prefix:tag>" to the next "</prefix:tag>"
ExtractWithPrefix(doc, prefix, tag) ==
    LET start == FirstIndex({i \in 1..Len(doc) :
                        /\ doc[i].k = "Start" /\ doc[i].p = prefix /\ doc[i].n = tag
                        /\ doc[i].a = <<>>})
        end == IF start = 0 THEN 0
               ELSE FirstIndex({i \in (start + 1)..Len(doc) :
                        doc[i].k = "End" /\ doc[i].p = prefix /\ doc[i].n = tag}) IN
    IF start = 0 \/ end = 0 THEN NoValue
    ELSE [some |-> TRUE, v |-> FlatText(SubSeq(doc, start + 1, end - 1))]

ValuePrefixes == <<"", "trt", "tev", "tds", "tt">>

RECURSIVE ExtractFrom(_, _, _)
ExtractFrom(doc, tag, k) ==
    IF k > Len(ValuePrefixes) THEN NoValue
    ELSE LET r == ExtractWithPrefix(doc, ValuePrefixes[k], tag) IN
         IF r.some THEN r ELSE ExtractFrom(doc, tag, k + 1)

\* routes::extract_value: the bare tag first, then the four known prefixes
extract_value(doc, tag) == ExtractFrom(doc, tag, 1)

-----------------------------------------------------------------------------
(* Inputs: the documents clients and cameras send.                         *)

Ver20MediaNs == "http://www.onvif.org/ver20/media/wsdl"

\* an envelope whose Envelope and Body tags carry the prefix p
Envelope(p, children) ==
    <<St(p, "Envelope", <<>>), St(p, "Body", <<>>)>> \o children
        \o <<En(p, "Body"), En(p, "Envelope")>>

Element(p, n) == <<St(p, n, <<>>), En(p, n)>>

PullMessagesDoc(timeout, limit) ==
    Envelope("", <<St("tev", "PullMessages", <<>>),
                   St("tev", "Timeout", <<>>), Tx(timeout), En("tev", "Timeout"),
                   St("tev", "MessageLimit", <<>>), Tx(limit), En("tev", "MessageLimit"),
                   En("tev", "PullMessages")>>)

\* the request bodies clients send
Docs == <<
    Envelope("", Element("tds", "GetDeviceInformation")),              \* 1
    Envelope("", Element("trt", "GetProfiles")),                       \* 2
    Envelope("", Element("tev", "CreatePullPointSubscription")),       \* 3
    PullMessagesDoc(<<"P", "T", "1", "S">>, <<"1", "0">>),             \* 4
    PullMessagesDoc(<<"P", "T", "1", "S">>, <<"1">>),                  \* 5
    Envelope("", Element("tev", "Renew")),                             \* 6
    Envelope("", Element("tev", "Unsubscribe")),                       \* 7
    Envelope("", Element("tds", "SystemReboot")),                      \* 8
    Envelope("", <<>>),                                                \* 9: empty Body
    <<St("", "Envelope", <<>>), En("", "Envelope")>>,                  \* 10: no Body
    <<St("", "Envelope", <<>>), St("", "Body", <<>>),
      St("tds", "GetDeviceInformation", <<>>), BadToken>>,             \* 11: syntax error
    Envelope("SOAP-ENV", Element("tds", "GetDeviceInformation")),      \* 12: prefixed
    Envelope("", <<St("tr2", "GetProfiles", <<<<"xmlns:tr2", Ver20MediaNs>>>>),
                   En("tr2", "GetProfiles")>>),                        \* 13: ver20
    Envelope("", <<St("tr2", "SetOSD", <<<<"xmlns:tr2", Ver20MediaNs>>>>),
                   En("tr2", "SetOSD")>>),                             \* 14: ver20
    PullMessagesDoc(<<"P", "T", "1", "S">>, <<"0">>)                   \* 15
>>

DocIds == 1..Len(Docs)

\* str::contains of the ver20 media namespace URI (it occurs as an attribute value)
ContainsVer20(doc) ==
    \E i \in 1..Len(doc) : \E j \in 1..Len(doc[i].a) : doc[i].a[j][2] = Ver20MediaNs

CameraSubscriptionUrl == <<"http://192.168.1.10:8000", "/onvif/", "subscription?Idx=0">>

\* the response bodies cameras send
CameraDocs == <<
    \* 1: a CreatePullPointSubscriptionResponse with a wsa5:Address
    <<St("SOAP-ENV", "Envelope", <<>>), St("SOAP-ENV", "Body", <<>>),
      St("tev", "CreatePullPointSubscriptionResponse", <<>>),
      St("tev", "SubscriptionReference", <<>>),
      St("wsa5", "Address", <<>>), Tx(CameraSubscriptionUrl), En("wsa5", "Address"),
      En("tev", "SubscriptionReference"),
      En("tev", "CreatePullPointSubscriptionResponse"),
      En("SOAP-ENV", "Body"), En("SOAP-ENV", "Envelope")>>,
    \* 2: a SOAP fault
    <<St("SOAP-ENV", "Envelope", <<>>), St("SOAP-ENV", "Body", <<>>),
      St("SOAP-ENV", "Fault", <<>>), Tx(<<"NotAuthorized">>), En("SOAP-ENV", "Fault"),
      En("SOAP-ENV", "Body"), En("SOAP-ENV", "Envelope")>>,
    \* 3: a CreatePullPointSubscriptionResponse whose Address carries another prefix
    <<St("s", "Envelope", <<>>), St("s", "Body", <<>>),
      St("tev", "CreatePullPointSubscriptionResponse", <<>>),
      St("tev", "SubscriptionReference", <<>>),
      St("a", "Address", <<>>), Tx(CameraSubscriptionUrl), En("a", "Address"),
      En("tev", "SubscriptionReference"),
      En("tev", "CreatePullPointSubscriptionResponse"),
      En("s", "Body"), En("s", "Envelope")>>
>>

\* how a camera call can end: a 2xx response, a non-2xx response (both carry a
\* body), or a transport failure (unreachable, timeout, unreadable body)
CameraOutcomes ==
    {[kind |-> k, doc |-> d] : k \in {"ok", "http_error"}, d \in 1..Len(CameraDocs)}
        \cup {[kind |-> "transport_error", doc |-> 0]}

\* state.base_url, the address clients reach the proxy at
BaseUrl == "http://proxy:8000"

Cameras == {"camA", "camB"}
UnknownCamera == "camX"
CameraIds == Cameras \cup {UnknownCamera}

RefOrder == <<"r1", "r2">>
RefIds == {RefOrder[i] : i \in 1..Len(RefOrder)}
UnknownRef == "r9"
NoRef == ""
SubIds == RefIds \cup {UnknownRef}

Routes == {"device_service", "media_service", "Media2", "event_service", "subscription"}

Tasks == {"t1", "t2"}

\* the requests a client can send to the cameras `ids`: the subscription
\* route carries a sub_id
RequestsTo(ids) ==
    {[route |-> rt, camera_id |-> c, sub_id |-> NoRef, doc |-> d] :
        rt \in Routes \ {"subscription"}, c \in ids, d \in DocIds}
    \cup {[route |-> "subscription", camera_id |-> c, sub_id |-> sid, doc |-> d] :
        c \in ids, sid \in SubIds, d \in DocIds}

AllRequests == RequestsTo(CameraIds)

\* the requests of Spec: one registered camera and the unknown one
Requests == RequestsTo({"camA", UnknownCamera})

-----------------------------------------------------------------------------
(* The state after construction: EventsService::new, the registry filled   *)
(* from the configuration, no request accepted yet.                        *)

None == <<>>
Some(x) == <<x>>

NoReq == [route |-> "", camera_id |-> "", sub_id |-> NoRef, doc |-> 0]
NoOutcome == [kind |-> "none", doc |-> 0]

IdleTask == [pc |-> "idle", req |-> NoReq, op |-> "", path |-> <<>>, sub_ref |-> NoRef,
             calls |-> 0, outcome |-> NoOutcome, status |-> 0, body |-> "",
             events |-> <<>>, message_limit |-> 0, timeout_secs |-> 0,
             deadline |-> 0, start |-> 0, wake_at |-> 0, floor |-> 0, response |-> <<>>,
             ended |-> 0]

\* a reference that was never issued has no poller.  failed_polls counts
\* the queries that failed since the last one that succeeded, failed_before
\* those that failed between the last two that succeeded.
NoPoller == [pc |-> "none", camera_id |-> "", last_motion_state |-> None,
             motion_detected |-> FALSE, wake_at |-> 0, last_poll |-> 0,
             appended |-> 0, last_observed |-> None, reported |-> {}, tasks |-> 0,
             failed_polls |-> 0, failed_before |-> 0]

\* no pure function is under study
NoCalc == [pc |-> "none"]

Init ==
    /\ subscriptions = [r \in {} |-> 0]
    /\ event_cache = [r \in RefIds |-> <<>>]
    /\ cache_lock = [r \in RefIds |-> "free"]
    /\ poller = [r \in RefIds |-> NoPoller]
    /\ motion = [c \in Cameras |-> FALSE]
    /\ task = [t \in Tasks |-> IdleTask]
    /\ now = 0
    /\ requests = 0
    /\ delivered = [r \in RefIds |-> 0]
    /\ calc = NoCalc

-----------------------------------------------------------------------------
(* Route dispatch (server/routes.rs).                                      *)

DeviceActions == {"GetSystemDateAndTime", "GetDeviceInformation", "GetCapabilities",
                  "GetServices"}
MediaActions == {"GetProfiles", "GetStreamUri", "GetSnapshotUri"}
EventsActions == {"GetEventProperties", "CreatePullPointSubscription", "PullMessages",
                  "Renew", "Unsubscribe"}
SubscriptionActions == {"PullMessages", "Renew", "Unsubscribe"}

\* the camera endpoint each operation posts to
ServicePath(op) ==
    CASE op \in DeviceActions -> "/onvif/device_service"
      [] op \in MediaActions -> "/onvif/media_service"
      [] op = "Media2" -> "/onvif/Media2"
      [] OTHER -> "/onvif/event_service"

Respond(status, body) == [kind |-> "respond", status |-> status, body |-> body,
                          op |-> "", sub_ref |-> NoRef]
Call(op, ref) == [kind |-> "call", status |-> 0, body |-> "", op |-> op, sub_ref |-> ref]
\* a faulty variant of Pull: PullMessages is forwarded to the camera
Pull_ViaCamera(ref) == Call("PullMessages", ref)
Pull(ref) == [kind |-> "pull", status |-> 0, body |-> "", op |-> "PullMessages",
              sub_ref |-> ref]

NotImplemented == Respond(501, "Action not implemented")

\* a faulty variant of DeviceDispatch: an action outside the match arms is
\* passed on to the camera
DeviceDispatch_ForwardUnknown(action) ==
    IF action = "" THEN Respond(200, "OK") ELSE Call(action, NoRef)

\* handle_device_service after the envelope is parsed
DeviceDispatch(action) ==
    IF action = "" THEN Respond(200, "OK")
    ELSE IF action \in DeviceActions THEN Call(action, NoRef)
    ELSE NotImplemented

\* handle_media_service: a ver20 request is passed through to /onvif/Media2
MediaDispatch(action, doc) ==
    IF ContainsVer20(doc) THEN Call("Media2", NoRef)
    ELSE IF action \in MediaActions THEN Call(action, NoRef)
    ELSE NotImplemented

\* handle_media2_service: every parsed request is passed through
Media2Dispatch(action) == Call("Media2", NoRef)

\* handle_events_service: no reference is taken from the request
EventsDispatch(action) ==
    IF action = "PullMessages" THEN Pull(NoRef)
    ELSE IF action \in EventsActions THEN Call(action, NoRef)
    ELSE NotImplemented

\* handle_subscription: the reference is the sub_id of the path
SubscriptionDispatch(action, sub_id) ==
    IF action = "PullMessages" THEN Pull(sub_id)
    ELSE IF action \in SubscriptionActions THEN Call(action, sub_id)
    ELSE NotImplemented

\* a faulty variant of Dispatch: the envelope is parsed before the registry
\* is asked for the camera
Dispatch_ParseFirst(req) ==
    LET doc == Docs[req.doc]
        envelope == Parse(doc)
        action == ExtractAction(envelope) IN
    IF ~envelope.ok THEN Respond(400, "Invalid SOAP")
    ELSE IF req.camera_id \notin Cameras THEN Respond(404, "Camera not found")
    ELSE CASE req.route = "device_service" -> DeviceDispatch(action)
           [] req.route = "media_service" -> MediaDispatch(action, doc)
           [] req.route = "Media2" -> Media2Dispatch(action)
           [] req.route = "event_service" -> EventsDispatch(action)
           [] OTHER -> SubscriptionDispatch(action, req.sub_id)

\* a faulty variant of Dispatch: a parse error is taken for an empty envelope
Dispatch_LenientParse(req) ==
    LET doc == Docs[req.doc]
        action == ExtractAction(Parse(doc)) IN
    IF req.camera_id \notin Cameras THEN Respond(404, "Camera not found")
    ELSE CASE req.route = "device_service" -> DeviceDispatch(action)
           [] req.route = "media_service" -> MediaDispatch(action, doc)
           [] req.route = "Media2" -> Media2Dispatch(action)
           [] req.route = "event_service" -> EventsDispatch(action)
           [] OTHER -> SubscriptionDispatch(action, req.sub_id)

\* a handler up to its first camera call or cache wait: registry lookup,
\* SoapEnvelope::parse, then the match on the action
Dispatch(req) ==
    LET doc == Docs[req.doc]
        envelope == Parse(doc)
        action == ExtractAction(envelope) IN
    IF req.camera_id \notin Cameras THEN Respond(404, "Camera not found")
    ELSE IF ~envelope.ok THEN Respond(400, "Invalid SOAP")
    ELSE CASE req.route = "device_service" -> DeviceDispatch(action)
           [] req.route = "media_service" -> MediaDispatch(action, doc)
           [] req.route = "Media2" -> Media2Dispatch(action)
           [] req.route = "event_service" -> EventsDispatch(action)
           [] OTHER -> SubscriptionDispatch(action, req.sub_id)

\* SoapEnvelope::parse of every request body of the model
Envelopes == [d \in DocIds |-> Parse(Docs[d])]

\* Dispatch of every request of the model
Plans == [req \in AllRequests |-> Dispatch(req)]

\* the Timeout of a PullMessages request, in seconds
RequestTimeoutSecs(doc) ==
    LET txt == extract_value(doc, "Timeout")
        d == parse_iso_duration(IF txt.some THEN txt.v ELSE <<"P", "T", "1", "S">>) IN
    IF d.ok THEN d.v ELSE DefaultTimeoutSecs

\* the MessageLimit of a PullMessages request
RequestMessageLimit(doc) ==
    LET txt == extract_value(doc, "MessageLimit")
        n == IF txt.some THEN ParseInt(txt.v) ELSE NoInt IN
    IF n.ok THEN n.v ELSE DefaultMessageLimit

\* the Timeout and the MessageLimit of every request body of the model
TimeoutSecsOf == [d \in DocIds |-> RequestTimeoutSecs(Docs[d])]
MessageLimitOf == [d \in DocIds |-> RequestMessageLimit(Docs[d])]

-----------------------------------------------------------------------------
(* The subscription engine (onvif/events.rs): pure parts.                  *)

\* references never issued so far; Uuid::new_v4 yields one of them
UnusedRefs == {r \in RefIds : poller[r].pc = "none"}

\* a faulty variant of FreshRef: every create issues the same reference
FreshRef_Reused == RefOrder[1]

FreshRef == RefOrder[CHOOSE i \in 1..Len(RefOrder) :
                /\ RefOrder[i] \in UnusedRefs
                /\ \A j \in 1..(i - 1) : RefOrder[j] \notin UnusedRefs]

\* EventsService::extract_subscription_url: the Address text under the first
\* spelling that occurs, else the default path
extract_subscription_url(doc) ==
    LET a == ExtractWithPrefix(doc, "wsa5", "Address")
        b == ExtractWithPrefix(doc, "wsa", "Address")
        c == ExtractWithPrefix(doc, "", "Address") IN
    IF a.some THEN a.v ELSE IF b.some THEN b.v ELSE IF c.some THEN c.v
    ELSE <<"/onvif/event_service">>

\* the address prefixes extract_subscription_url and rewrite_subscription_ref try
AddressPrefixes == <<"wsa5", "wsa", "">>

\* the first and last token of the Address element of `doc` written with
\* AddressPrefixes[k], or of the next spelling that occurs complete; <<>> for none
AddressSpan(doc, k) ==
    LET found == {j \in k..Len(AddressPrefixes) :
                    ExtractWithPrefix(doc, AddressPrefixes[j], "Address").some} IN
    IF found = {} THEN <<>>
    ELSE LET p == AddressPrefixes[FirstIndex(found)]
             start == FirstIndex({i \in 1..Len(doc) :
                        /\ doc[i].k = "Start" /\ doc[i].p = p /\ doc[i].n = "Address"
                        /\ doc[i].a = <<>>})
             end == FirstIndex({i \in (start + 1)..Len(doc) :
                        doc[i].k = "End" /\ doc[i].p = p /\ doc[i].n = "Address"}) IN
         <<start, end>>

\* the proxy-owned URL of a subscription
ProxyUrl(camera_id, ref) == <<BaseUrl, "/onvif/", camera_id, "/subscription/", ref>>

\* EventsService::rewrite_subscription_ref: the text of the first Address
\* element found is replaced by the proxy URL
rewrite_subscription_ref(doc, proxy_url) ==
    LET span == AddressSpan(doc, 1) IN
    IF span = <<>> THEN doc
    ELSE SubSeq(doc, 1, span[1]) \o <<Tx(proxy_url)>> \o SubSeq(doc, span[2], Len(doc))

\* renew_subscription / unsubscribe: the part of the camera's subscription URL
\* from "/onvif/" on, else the events endpoint
subscription_path(url) ==
    LET idx == FirstIndex({i \in 1..Len(url) : url[i] = "/onvif/"}) IN
    IF idx = 0 THEN <<"/onvif/event_service">> ELSE SubSeq(url, idx, Len(url))

\* EventsService::generate_motion_event (the timestamp is left out)
generate_motion_event(camera_id, motion_active) ==
    [topic |-> "tns1:RuleEngine/CellMotionDetector/Motion",
     source |-> camera_id, is_motion |-> motion_active]

\* a faulty variant of TrimCache: the newest entries are dropped
TrimCache_DropNewest(cache) ==
    IF Len(cache) > CacheCapacity THEN SubSeq(cache, 1, CacheCapacity) ELSE cache

RECURSIVE TrimCache(_)
\* `while cache.len() > 100 { cache.pop_front(); }`
TrimCache(cache) ==
    IF Len(cache) > CacheCapacity THEN TrimCache(Tail(cache)) ELSE cache

RECURSIVE Drain_Prepend(_, _, _)
\* a faulty variant of Drain: each popped event is put in front of the others
Drain_Prepend(cache, events, limit) ==
    IF BelowLimit(Len(events), limit) /\ cache # <<>>
    THEN Drain_Prepend(Tail(cache), <<Head(cache)>> \o events, limit)
    ELSE [cache |-> cache, events |-> events]

\* a faulty variant of Drain: the events are read and stay in the cache
Drain_CacheKept(cache, events, limit) ==
    [cache |-> cache,
     events |-> events \o SubSeq(cache, 1, IF limit < 0 \/ limit - Len(events) > Len(cache)
                                           THEN Len(cache)
                                           ELSE limit - Len(events))]

RECURSIVE Drain(_, _, _)
\* the inner loop of pull_messages: pop_front into events while below the limit
Drain(cache, events, limit) ==
    IF BelowLimit(Len(events), limit) /\ cache # <<>>
    THEN Drain(Tail(cache), Append(events, Head(cache)), limit)
    ELSE [cache |-> cache, events |-> events]

\* highest sequence number among events, or floor
MaxSeq(events, floor) ==
    IF events = <<>> THEN floor
    ELSE LET m == CHOOSE i \in 1..Len(events) :
                      \A j \in 1..Len(events) : events[j].seq <= events[i].seq IN
         IF events[m].seq > floor THEN events[m].seq ELSE floor

-----------------------------------------------------------------------------
(* Handlers.                                                               *)

\* creates accepted but not yet answered by the camera
PendingCreates == {t \in Tasks : task[t].pc = "camera_call"
                                  /\ task[t].op = "CreatePullPointSubscription"}

\* the task record of a finished handler; `ended` keeps the time of its end
Finished(rec, status, body) ==
    [rec EXCEPT !.pc = "done", !.status = status, !.body = body, !.ended = now]

\* the camera path of a Renew or Unsubscribe for reference ref
ForwardPath(ref) ==
    IF ref \in DOMAIN subscriptions
    THEN subscription_path(subscriptions[ref].camera_subscription_url)
    ELSE <<"/onvif/event_service">>

\* a handler from the arrival of the request to its first suspension: it has
\* answered, or sent its camera request, or looked up its subscription
Accept(t, req) ==
    /\ task[t].pc = "idle"
    /\ LET plan == Plans[req]
           rec == [IdleTask EXCEPT !.req = req, !.op = plan.op, !.sub_ref = plan.sub_ref]
           timeout_secs == TimeoutSecsOf[req.doc] IN
       /\ plan.op = "CreatePullPointSubscription"
            => Cardinality(UnusedRefs) > Cardinality(PendingCreates)
       /\ task' = [task EXCEPT ![t] =
            CASE plan.kind = "respond" -> Finished(rec, plan.status, plan.body)
              [] plan.kind = "call" ->
                    [rec EXCEPT !.pc = "camera_call", !.calls = 1,
                        !.path = IF plan.op \in {"Renew", "Unsubscribe"}
                                 THEN ForwardPath(plan.sub_ref)
                                 ELSE <<ServicePath(plan.op)>>]
              [] OTHER ->
                    \* pull_messages: get_subscription, then the deadline
                    IF plan.sub_ref \notin DOMAIN subscriptions
                    THEN Finished(rec, 500, "Error: Subscription not found")
                    ELSE [rec EXCEPT !.pc = "pull_loop",
                             !.message_limit = MessageLimitOf[req.doc],
                             !.timeout_secs = timeout_secs,
                             !.deadline = now + 1000 * timeout_secs,
                             !.start = now,
                             !.floor = delivered[plan.sub_ref]]]
    /\ UNCHANGED <<calc, subscriptions, event_cache, cache_lock, poller, motion, now, delivered>>

\* the same, counted: the model accepts MaxRequests requests
HandleRequest(t, req) ==
    /\ requests < MaxRequests
    /\ Accept(t, req)
    /\ requests' = requests + 1

\* the Subscription record create_pull_point_subscription inserts
NewSubscription(ref, camera_id, url) ==
    [_subscription_ref |-> ref, camera_id |-> camera_id,
     camera_subscription_url |-> url, _created_at |-> now,
     expires_at |-> now + 1000 * LifetimeSecs]

\* the poller task create_pull_point_subscription spawns: it starts by sleeping
NewPoller(camera_id) ==
    [NoPoller EXCEPT !.pc = "sleep", !.camera_id = camera_id,
                     !.wake_at = now + PollIntervalMs, !.last_poll = now]

\* a faulty variant of SendResult: a call that failed counts as answered
SendResult_FailureIgnored(outcome) ==
    IF outcome.kind = "transport_error"
    THEN [ok |-> TRUE, doc |-> 1]
    ELSE [ok |-> TRUE, doc |-> outcome.doc]

\* CameraClient::send_soap_request_with_auth: Err for a transport failure,
\* Ok(body) for every HTTP status
SendResult(outcome) ==
    IF outcome.kind = "transport_error"
    THEN [ok |-> FALSE, doc |-> 0]
    ELSE [ok |-> TRUE, doc |-> outcome.doc]

\* a faulty variant of TableAfter: an Unsubscribe leaves the record in place
TableAfter_KeepOnUnsubscribe(rec, sent, ref) ==
    IF ~sent.ok THEN subscriptions
    ELSE CASE rec.op = "CreatePullPointSubscription" ->
                [r \in DOMAIN subscriptions \cup {ref} |->
                    IF r = ref
                    THEN NewSubscription(ref, rec.req.camera_id,
                                         extract_subscription_url(CameraDocs[sent.doc]))
                    ELSE subscriptions[r]]
           [] rec.op = "Renew" ->
                [r \in DOMAIN subscriptions |->
                    IF r = rec.sub_ref
                    THEN [subscriptions[r] EXCEPT !.expires_at = now + 1000 * LifetimeSecs]
                    ELSE subscriptions[r]]
           [] OTHER -> subscriptions

\* a faulty variant of TableAfter: a Renew leaves the expiry as it was
TableAfter_RenewIgnored(rec, sent, ref) ==
    IF ~sent.ok THEN subscriptions
    ELSE CASE rec.op = "CreatePullPointSubscription" ->
                [r \in DOMAIN subscriptions \cup {ref} |->
                    IF r = ref
                    THEN NewSubscription(ref, rec.req.camera_id,
                                         extract_subscription_url(CameraDocs[sent.doc]))
                    ELSE subscriptions[r]]
           [] rec.op = "Unsubscribe" ->
                [r \in DOMAIN subscriptions \ {rec.sub_ref} |-> subscriptions[r]]
           [] OTHER -> subscriptions

\* a faulty variant of TableAfter: a Renew or Unsubscribe changes the table
\* although its camera call failed
TableAfter_FailureIgnored(rec, sent, ref) ==
    CASE rec.op = "CreatePullPointSubscription" /\ sent.ok ->
            [r \in DOMAIN subscriptions \cup {ref} |->
                IF r = ref
                THEN NewSubscription(ref, rec.req.camera_id,
                                     extract_subscription_url(CameraDocs[sent.doc]))
                ELSE subscriptions[r]]
      [] rec.op = "Renew" ->
            [r \in DOMAIN subscriptions |->
                IF r = rec.sub_ref
                THEN [subscriptions[r] EXCEPT !.expires_at = now + 1000 * LifetimeSecs]
                ELSE subscriptions[r]]
      [] rec.op = "Unsubscribe" ->
            [r \in DOMAIN subscriptions \ {rec.sub_ref} |-> subscriptions[r]]
      [] OTHER -> subscriptions

\* the subscription table after the camera answered operation op of task rec
TableAfter(rec, sent, ref) ==
    IF ~sent.ok THEN subscriptions
    ELSE CASE rec.op = "CreatePullPointSubscription" ->
                [r \in DOMAIN subscriptions \cup {ref} |->
                    IF r = ref
                    THEN NewSubscription(ref, rec.req.camera_id,
                                         extract_subscription_url(CameraDocs[sent.doc]))
                    ELSE subscriptions[r]]
           [] rec.op = "Renew" ->
                [r \in DOMAIN subscriptions |->
                    IF r = rec.sub_ref
                    THEN [subscriptions[r] EXCEPT !.expires_at = now + 1000 * LifetimeSecs]
                    ELSE subscriptions[r]]
           [] rec.op = "Unsubscribe" ->
                [r \in DOMAIN subscriptions \ {rec.sub_ref} |-> subscriptions[r]]
           [] OTHER -> subscriptions

\* the camera call of task t ends with `outcome`; the handler runs to its end
CameraRespond(t, outcome) ==
    /\ task[t].pc = "camera_call"
    /\ LET rec == task[t]
           sent == SendResult(outcome)
           creates == sent.ok /\ rec.op = "CreatePullPointSubscription"
           ref == IF creates THEN FreshRef ELSE NoRef IN
       /\ subscriptions' = TableAfter(rec, sent, ref)
       /\ poller' = IF creates
                    THEN [poller EXCEPT ![ref] =
                            [NewPoller(rec.req.camera_id) EXCEPT
                                !.tasks = poller[ref].tasks + 1]]
                    ELSE poller
       /\ task' = [task EXCEPT ![t] =
                    IF sent.ok
                    THEN Finished([rec EXCEPT
                                    !.outcome = outcome,
                                    !.sub_ref = IF creates THEN ref ELSE rec.sub_ref,
                                    !.response =
                                        IF creates
                                        THEN rewrite_subscription_ref(
                                                CameraDocs[sent.doc],
                                                ProxyUrl(rec.req.camera_id, ref))
                                        ELSE CameraDocs[sent.doc]],
                                  200, "camera_body")
                    ELSE Finished([rec EXCEPT !.outcome = outcome], 500, "Error")]
    /\ UNCHANGED <<calc, event_cache, cache_lock, motion, now, requests, delivered>>

-----------------------------------------------------------------------------
(* pull_messages: the wait loop on the cache of the subscription found.    *)

\* a faulty variant of PullReturn: a wait that ends without events is an error
PullReturn_TimeoutError(t) ==
    /\ task' = [task EXCEPT ![t] =
                    IF task[t].events = <<>>
                    THEN Finished(task[t], 500, "Error")
                    ELSE Finished(task[t], 200, "PullMessagesResponse")]
    /\ delivered' = [delivered EXCEPT ![task[t].sub_ref] =
                        MaxSeq(task[t].events, delivered[task[t].sub_ref])]

\* a faulty variant of PullReturn: the subscription is looked up again
PullReturn_LooksUpAgain(t) ==
    /\ task' = [task EXCEPT ![t] =
                    IF task[t].sub_ref \in DOMAIN subscriptions
                    THEN Finished(task[t], 200, "PullMessagesResponse")
                    ELSE Finished(task[t], 500, "Error: Subscription not found")]
    /\ delivered' = [delivered EXCEPT ![task[t].sub_ref] =
                        MaxSeq(task[t].events, delivered[task[t].sub_ref])]

\* the handler returns the PullMessagesResponse built from its events
PullReturn(t) ==
    /\ task' = [task EXCEPT ![t] = Finished(task[t], 200, "PullMessagesResponse")]
    /\ delivered' = [delivered EXCEPT ![task[t].sub_ref] =
                        MaxSeq(task[t].events, delivered[task[t].sub_ref])]

\* the condition of the outer while loop
PullLoop(t) ==
    /\ task[t].pc = "pull_loop"
    /\ IF BelowLimit(Len(task[t].events), task[t].message_limit) /\ now < task[t].deadline
       THEN /\ task' = [task EXCEPT ![t].pc = "pull_lock"]
            /\ UNCHANGED delivered
       ELSE PullReturn(t)
    /\ UNCHANGED <<calc, subscriptions, event_cache, cache_lock, poller, motion, now, requests>>

\* event_cache.write().await
PullAcquire(t) ==
    /\ task[t].pc = "pull_lock"
    /\ cache_lock[task[t].sub_ref] = "free"
    /\ cache_lock' = [cache_lock EXCEPT ![task[t].sub_ref] = t]
    /\ task' = [task EXCEPT ![t].pc = "pull_drain"]
    /\ UNCHANGED <<calc, subscriptions, event_cache, poller, motion, now, requests, delivered>>

\* the drain under the lock, the release, then sleep or break
PullDrain(t) ==
    /\ task[t].pc = "pull_drain"
    /\ LET ref == task[t].sub_ref
           got == Drain(event_cache[ref], task[t].events, task[t].message_limit)
           elapsed_secs == (now - task[t].start) \div 1000 IN
       /\ event_cache' = [event_cache EXCEPT ![ref] = got.cache]
       /\ cache_lock' = [cache_lock EXCEPT ![ref] = "free"]
       /\ IF got.events = <<>> /\ BelowTimeout(elapsed_secs, task[t].timeout_secs)
          THEN /\ task' = [task EXCEPT ![t].pc = "pull_sleep",
                                       ![t].wake_at = now + CheckIntervalMs]
               /\ UNCHANGED delivered
          ELSE /\ task' = [task EXCEPT ![t] =
                              Finished([task[t] EXCEPT !.events = got.events],
                                       200, "PullMessagesResponse")]
               /\ delivered' = [delivered EXCEPT ![ref] = MaxSeq(got.events, delivered[ref])]
    /\ UNCHANGED <<calc, subscriptions, poller, motion, now, requests>>

\* tokio::time::sleep(100 ms) is over
PullWake(t) ==
    /\ task[t].pc = "pull_sleep"
    /\ now >= task[t].wake_at
    /\ task' = [task EXCEPT ![t].pc = "pull_loop"]
    /\ UNCHANGED <<calc, subscriptions, event_cache, cache_lock, poller, motion, now, requests,
                   delivered>>

-----------------------------------------------------------------------------
(* poll_camera_events_background: one task per issued reference.           *)

\* a faulty variant of EndIteration: the loop is left after an iteration
EndIteration_Stops(p) == [p EXCEPT !.pc = "none", !.last_poll = now]

\* the end of one loop iteration: last_poll is written, the next sleep begins
EndIteration(p) ==
    [p EXCEPT !.pc = "sleep", !.last_poll = now, !.wake_at = now + PollIntervalMs]

\* tokio::time::sleep(500 ms) is over: the motion query is sent
PollerWake(r) ==
    /\ poller[r].pc = "sleep"
    /\ now >= poller[r].wake_at
    /\ poller' = [poller EXCEPT ![r].pc = "query"]
    /\ UNCHANGED <<calc, subscriptions, event_cache, cache_lock, motion, task, now, requests,
                   delivered>>

\* query_motion_state: "state" is a reply carrying the camera's state flag,
\* "no_state" a reply without `"state":1` (read as no motion), "error" a
\* transport failure
QueryResult(result, camera_id) ==
    CASE result = "state" -> Some(motion[camera_id])
      [] result = "no_state" -> Some(FALSE)
      [] OTHER -> None

\* a faulty variant of StateChanged: level-triggered, every poll appends
StateChanged_EveryPoll(last_motion_state, observed) == TRUE

\* whether the poller, having observed `observed`, appends an event
StateChanged(last_motion_state, observed) == last_motion_state # observed

\* the motion query of poller r returns
PollerQueryDone(r, result) ==
    /\ poller[r].pc = "query"
    /\ LET p == poller[r]
           observed == QueryResult(result, p.camera_id) IN
       poller' = [poller EXCEPT ![r] =
            IF observed = None
            THEN EndIteration([p EXCEPT !.failed_polls = p.failed_polls + 1])
            ELSE LET q == [p EXCEPT !.last_observed = observed,
                                    !.reported = p.reported \cup {observed[1]},
                                    !.motion_detected = observed[1],
                                    !.failed_polls = 0,
                                    !.failed_before = IF p.last_observed = None THEN 0
                                                      ELSE p.failed_polls] IN
                 IF StateChanged(p.last_motion_state, observed)
                 THEN [q EXCEPT !.pc = "lock"]
                 ELSE EndIteration(q)]
    /\ UNCHANGED <<calc, subscriptions, event_cache, cache_lock, motion, task, now, requests,
                   delivered>>

\* event_cache.write().await, then push_back of the generated event
PollerAppend(r) ==
    /\ poller[r].pc = "lock"
    /\ cache_lock[r] = "free"
    /\ cache_lock' = [cache_lock EXCEPT ![r] = "poller"]
    /\ event_cache' = [event_cache EXCEPT ![r] =
            Append(@, [event_xml |-> generate_motion_event(poller[r].camera_id,
                                                           poller[r].motion_detected),
                       seq |-> poller[r].appended + 1])]
    /\ poller' = [poller EXCEPT ![r].pc = "trim", ![r].appended = @ + 1]
    /\ UNCHANGED <<calc, subscriptions, motion, task, now, requests, delivered>>

\* the size limit, last_motion_state, and the release of the lock
PollerTrim(r) ==
    /\ poller[r].pc = "trim"
    /\ event_cache' = [event_cache EXCEPT ![r] = TrimCache(@)]
    /\ cache_lock' = [cache_lock EXCEPT ![r] = "free"]
    /\ poller' = [poller EXCEPT ![r] =
            EndIteration([poller[r] EXCEPT
                            !.last_motion_state = Some(poller[r].motion_detected)])]
    /\ UNCHANGED <<calc, subscriptions, motion, task, now, requests, delivered>>

-----------------------------------------------------------------------------
(* The environment: the cameras' motion alarm and the clock.               *)

\* the motion alarm of a camera some poller watches goes on or off
MotionChange(c) ==
    /\ \E r \in RefIds : poller[r].pc # "none" /\ poller[r].camera_id = c
    /\ motion' = [motion EXCEPT ![c] = ~@]
    /\ UNCHANGED <<calc, subscriptions, event_cache, cache_lock, poller, task, now, requests,
                   delivered>>

\* the instants some task waits for: the end of a sleep, a pull's deadline
Timers ==
    {poller[r].wake_at : r \in {x \in RefIds : poller[x].pc = "sleep"}}
    \cup {task[t].wake_at : t \in {x \in Tasks : task[x].pc = "pull_sleep"}}
    \cup {task[t].deadline : t \in {x \in Tasks : task[x].pc \in
                {"pull_loop", "pull_lock", "pull_drain", "pull_sleep"}}}

\* the clock reaches the instant `at`, one some task waits for
Advance(at) ==
    /\ at \in Timers
    /\ at > now
    /\ now' = at
    /\ UNCHANGED <<calc, subscriptions, event_cache, cache_lock, poller, motion, task, requests,
                   delivered>>

QueryResults == {"state", "no_state", "error"}

-----------------------------------------------------------------------------
(* Spec: one handler task at a time over every request and every camera    *)
(* outcome; the pollers are not scheduled (SpecEvents schedules them).     *)
(* A finished handler's record is its response; handing it to the client   *)
(* frees the task, and is taken as the next step.                          *)

\* the response of task t goes out and the task is free again
Reply(t) ==
    /\ task[t].pc = "done"
    /\ task' = [task EXCEPT ![t] = IdleTask]
    /\ UNCHANGED <<calc, subscriptions, event_cache, cache_lock, poller, motion, now, requests,
                   delivered>>

\* no response is waiting to go out
Quiet == \A t \in Tasks : task[t].pc # "done"

Next ==
    \/ \E t \in Tasks : Reply(t)
    \/ Quiet /\ \E req \in Requests : HandleRequest("t1", req)
    \/ Quiet /\ \E o \in CameraOutcomes : CameraRespond("t1", o)
    \/ Quiet /\ PullLoop("t1")
    \/ Quiet /\ PullAcquire("t1")
    \/ Quiet /\ PullDrain("t1")
    \/ Quiet /\ PullWake("t1")
    \/ Quiet /\ \E at \in Timers : at <= MaxTime /\ Advance(at)

Spec == Init /\ [][Next]_vars

-----------------------------------------------------------------------------
(* SpecCache: one subscription whose camera changes its motion state       *)
(* between every two polls, so that every poll appends, until the cache    *)
(* has overflowed; one handler task pulls from it once the cache is about  *)
(* to be full.                                                             *)

CacheRequests ==
    {[route |-> "event_service", camera_id |-> "camA", sub_id |-> NoRef, doc |-> 3]}
    \cup {[route |-> "subscription", camera_id |-> "camA", sub_id |-> "r1", doc |-> d] :
            d \in {4, 5}}

\* the poller of r sleeps and the camera still shows what it observed last
Settled(r) ==
    /\ poller[r].pc = "sleep"
    /\ poller[r].appended < MaxCacheAppends
    /\ poller[r].last_motion_state \in {None, Some(motion[poller[r].camera_id])}

NextCache ==
    \/ \E t \in Tasks : Reply(t)
    \/ Quiet /\ \E req \in CacheRequests :
            /\ req.route = "event_service" => UnusedRefs = RefIds /\ PendingCreates = {}
            /\ req.route = "subscription" => Len(event_cache[req.sub_id]) >= CacheCapacity - 1
            /\ HandleRequest("t1", req)
    \/ Quiet /\ CameraRespond("t1", [kind |-> "ok", doc |-> 1])
    \/ Quiet /\ PullLoop("t1")
    \/ Quiet /\ PullAcquire("t1")
    \/ Quiet /\ PullDrain("t1")
    \/ Quiet /\ \E r \in RefIds : PollerWake(r)
    \/ Quiet /\ \E r \in RefIds : PollerQueryDone(r, "state")
    \/ Quiet /\ \E r \in RefIds : PollerAppend(r)
    \/ Quiet /\ \E r \in RefIds : PollerTrim(r)
    \/ Quiet /\ \E r \in RefIds : Settled(r) /\ MotionChange(poller[r].camera_id)
    \/ Quiet /\ \E r \in RefIds :
            /\ poller[r].pc = "sleep"
            /\ poller[r].last_motion_state # Some(motion[poller[r].camera_id])
            /\ Advance(poller[r].wake_at)

SpecCache == Init /\ [][NextCache]_vars

-----------------------------------------------------------------------------
(* SpecEvents: one subscription of one camera, one handler task at a time  *)
(* pulling from it, its poller, the camera's motion alarm and the clock.   *)

EventRequests ==
    {[route |-> "event_service", camera_id |-> "camA", sub_id |-> NoRef, doc |-> 3]}
    \cup {[route |-> "subscription", camera_id |-> "camA", sub_id |-> sid, doc |-> d] :
            sid \in {"r1", UnknownRef}, d \in {4, 5}}

\* the camera answers the create with a subscription address, or not at all
EventOutcomes == {[kind |-> "ok", doc |-> 1], [kind |-> "transport_error", doc |-> 0]}

NextEvents ==
    \/ \E t \in Tasks : Reply(t)
    \/ Quiet /\ \E req \in EventRequests :
            /\ req.route = "event_service" => UnusedRefs = RefIds /\ PendingCreates = {}
            /\ HandleRequest("t1", req)
    \/ Quiet /\ \E o \in EventOutcomes : CameraRespond("t1", o)
    \/ Quiet /\ PullLoop("t1")
    \/ Quiet /\ PullAcquire("t1")
    \/ Quiet /\ PullDrain("t1")
    \/ Quiet /\ PullWake("t1")
    \/ Quiet /\ \E r \in RefIds : PollerWake(r)
    \/ Quiet /\ \E r \in RefIds, res \in QueryResults : PollerQueryDone(r, res)
    \/ Quiet /\ \E r \in RefIds : PollerAppend(r)
    \/ Quiet /\ \E r \in RefIds : PollerTrim(r)
    \/ Quiet /\ \E c \in Cameras : MotionChange(c)
    \/ Quiet /\ \E at \in Timers : at <= MaxTime /\ Advance(at)

SpecEvents == Init /\ [][NextEvents]_vars

-----------------------------------------------------------------------------
(* SpecLife: the life of the subscriptions of one camera: creates, renews, *)
(* unsubscribes and pulls, by one handler task at a time, while the        *)
(* pollers run against a camera whose motion alarm stays off.              *)

LifeRequests ==
    {[route |-> "event_service", camera_id |-> "camA", sub_id |-> NoRef, doc |-> 3]}
    \cup {[route |-> "subscription", camera_id |-> "camA", sub_id |-> sid, doc |-> d] :
            sid \in {"r1", UnknownRef}, d \in {4, 6, 7}}

NextLife ==
    \/ \E t \in Tasks : Reply(t)
    \/ Quiet /\ \E req \in LifeRequests : HandleRequest("t1", req)
    \/ Quiet /\ \E o \in EventOutcomes : CameraRespond("t1", o)
    \/ Quiet /\ PullLoop("t1")
    \/ Quiet /\ PullAcquire("t1")
    \/ Quiet /\ PullDrain("t1")
    \/ Quiet /\ PullWake("t1")
    \/ Quiet /\ \E r \in RefIds : PollerWake(r)
    \/ Quiet /\ \E r \in RefIds : PollerQueryDone(r, "state")
    \/ Quiet /\ \E r \in RefIds : PollerAppend(r)
    \/ Quiet /\ \E r \in RefIds : PollerTrim(r)
    \/ Quiet /\ \E at \in Timers : at <= MaxTime /\ Advance(at)

SpecLife == Init /\ [][NextLife]_vars

-----------------------------------------------------------------------------
(* SpecLate: the gateway from one poll interval before the expiry time of  *)
(* a subscription on: ten minutes earlier r1 was created for camA, whose   *)
(* motion alarm has been off since; its poller has appended the one event  *)
(* of its first poll and no client has pulled.  From here on the alarm     *)
(* changes between the polls; the clock runs to the poll after the expiry  *)
(* time.                                                                   *)

LateStart == 1000 * LifetimeSecs - PollIntervalMs

InitLate ==
    /\ subscriptions =
        [r \in {"r1"} |->
            [_subscription_ref |-> r, camera_id |-> "camA",
             camera_subscription_url |-> extract_subscription_url(CameraDocs[1]),
             _created_at |-> 0, expires_at |-> 1000 * LifetimeSecs]]
    /\ event_cache = [r \in RefIds |->
            IF r = "r1"
            THEN <<[event_xml |-> generate_motion_event("camA", FALSE), seq |-> 1]>>
            ELSE <<>>]
    /\ cache_lock = [r \in RefIds |-> "free"]
    /\ poller = [r \in RefIds |->
            IF r = "r1"
            THEN [NoPoller EXCEPT !.pc = "sleep", !.camera_id = "camA",
                                  !.last_motion_state = Some(FALSE),
                                  !.last_observed = Some(FALSE), !.reported = {FALSE},
                                  !.appended = 1, !.tasks = 1, !.last_poll = LateStart,
                                  !.wake_at = LateStart + PollIntervalMs]
            ELSE NoPoller]
    /\ motion = [c \in Cameras |-> FALSE]
    /\ task = [t \in Tasks |-> IdleTask]
    /\ now = LateStart
    /\ requests = 1
    /\ delivered = [r \in RefIds |-> 0]
    /\ calc = NoCalc

LateRequests == {req \in LifeRequests : req.sub_id # UnknownRef}

NextLate ==
    \/ \E t \in Tasks : Reply(t)
    \/ Quiet /\ \E req \in LateRequests : HandleRequest("t1", req)
    \/ Quiet /\ \E o \in EventOutcomes : CameraRespond("t1", o)
    \/ Quiet /\ PullLoop("t1")
    \/ Quiet /\ PullAcquire("t1")
    \/ Quiet /\ PullDrain("t1")
    \/ Quiet /\ PullWake("t1")
    \/ Quiet /\ \E r \in RefIds : PollerWake(r)
    \/ Quiet /\ \E r \in RefIds : PollerQueryDone(r, "state")
    \/ Quiet /\ \E r \in RefIds : PollerAppend(r)
    \/ Quiet /\ \E r \in RefIds : PollerTrim(r)
    \/ Quiet /\ \E r \in RefIds : poller[r].pc = "sleep" /\ MotionChange(poller[r].camera_id)
    \/ Quiet /\ \E at \in Timers : at <= LateStart + 2 * PollIntervalMs /\ Advance(at)

SpecLate == InitLate /\ [][NextLate]_vars

-----------------------------------------------------------------------------
(* SpecWait: one PullMessages call from its arrival to its return, for     *)
(* every Timeout and MessageLimit text of a small set.  The call arrives   *)
(* one poll interval after the create of r1, when the event of the first   *)
(* poll has been pulled; the poller runs on and the camera's motion alarm  *)
(* changes at any time.  Sleeps end on time: the clock moves only when     *)
(* every task sleeps, and then to the earliest wake-up.                    *)

\* the Timeout and MessageLimit texts of the call; calc holds them
WaitInputs ==
    [pc : {"wait"},
     timeout : {<<"P", "T", "1", "S">>, <<"P", "T", "2", "S">>, <<"P", "T", "1", "M">>,
                <<"P", "T", "1", "H">>, <<"1", "S">>, <<>>},
     limit : {<<"1", "0">>, <<"1">>, <<"0">>, <<"-", "1">>}]

InitWait ==
    /\ calc \in WaitInputs
    /\ subscriptions =
        [r \in {"r1"} |->
            [_subscription_ref |-> r, camera_id |-> "camA",
             camera_subscription_url |-> extract_subscription_url(CameraDocs[1]),
             _created_at |-> 0, expires_at |-> 1000 * LifetimeSecs]]
    /\ event_cache = [r \in RefIds |-> <<>>]
    /\ cache_lock = [r \in RefIds |-> "free"]
    /\ poller = [r \in RefIds |->
            IF r = "r1"
            THEN [NoPoller EXCEPT !.pc = "sleep", !.camera_id = "camA",
                                  !.last_motion_state = Some(FALSE),
                                  !.last_observed = Some(FALSE), !.reported = {FALSE},
                                  !.appended = 1, !.tasks = 1, !.last_poll = PollIntervalMs,
                                  !.wake_at = 2 * PollIntervalMs]
            ELSE NoPoller]
    /\ motion = [c \in Cameras |-> FALSE]
    /\ now = PollIntervalMs
    /\ requests = 3
    /\ delivered = [r \in RefIds |-> IF r = "r1" THEN 1 ELSE 0]
    /\ LET doc == PullMessagesDoc(calc.timeout, calc.limit)
           timeout_secs == RequestTimeoutSecs(doc) IN
       task = [t \in Tasks |->
                IF t = "t1"
                THEN [IdleTask EXCEPT
                        !.req = [route |-> "subscription", camera_id |-> "camA",
                                 sub_id |-> "r1", doc |-> 0],
                        !.op = "PullMessages", !.sub_ref = "r1", !.pc = "pull_loop",
                        !.message_limit = RequestMessageLimit(doc),
                        !.timeout_secs = timeout_secs,
                        !.deadline = PollIntervalMs + 1000 * timeout_secs,
                        !.start = PollIntervalMs, !.floor = 1]
                ELSE IdleTask]

\* every task sleeps and `at` is the earliest wake-up
OnTime(at) ==
    /\ task["t1"].pc = "pull_sleep"
    /\ \A r \in RefIds : poller[r].pc \in {"none", "sleep"}
    /\ \A r \in RefIds : poller[r].pc = "sleep" => at <= poller[r].wake_at
    /\ at <= task["t1"].wake_at

NextWait ==
    \/ Quiet /\ PullLoop("t1")
    \/ Quiet /\ PullAcquire("t1")
    \/ Quiet /\ PullDrain("t1")
    \/ Quiet /\ PullWake("t1")
    \/ Quiet /\ \E r \in RefIds : PollerWake(r)
    \/ Quiet /\ \E r \in RefIds : PollerQueryDone(r, "state")
    \/ Quiet /\ \E r \in RefIds : PollerAppend(r)
    \/ Quiet /\ \E r \in RefIds : PollerTrim(r)
    \/ Quiet /\ \E c \in Cameras : MotionChange(c)
    \/ Quiet /\ \E at \in Timers : OnTime(at) /\ Advance(at)

SpecWait == InitWait /\ [][NextWait]_vars

-----------------------------------------------------------------------------
(* SpecRace: two handler tasks at once on one subscription.  r1 was        *)
(* created for camA whose motion alarm changed between every two polls, so *)
(* that each of the CacheCapacity - 1 polls since appended an event; the   *)
(* clients have pulled none of them, or all of them.  From here on two     *)
(* clients pull and unsubscribe concurrently while the poller runs.  The   *)
(* clock moves from one poll to the next; a call that sleeps wakes up      *)
(* after its 100 ms, as late as the next poll.                             *)

RaceStart == (CacheCapacity - 1) * PollIntervalMs

\* the events of the polls so far: the first reports the alarm off
EarlierEvents ==
    [i \in 1..(CacheCapacity - 1) |->
        [event_xml |-> generate_motion_event("camA", i % 2 = 0), seq |-> i]]

InitRace ==
    /\ subscriptions =
        [r \in {"r1"} |->
            [_subscription_ref |-> r, camera_id |-> "camA",
             camera_subscription_url |-> extract_subscription_url(CameraDocs[1]),
             _created_at |-> 0, expires_at |-> 1000 * LifetimeSecs]]
    /\ \E pulled \in BOOLEAN :
        /\ event_cache = [r \in RefIds |->
                IF r = "r1" /\ ~pulled THEN EarlierEvents ELSE <<>>]
        /\ delivered = [r \in RefIds |->
                IF r = "r1" /\ pulled THEN CacheCapacity - 1 ELSE 0]
    /\ cache_lock = [r \in RefIds |-> "free"]
    /\ poller = [r \in RefIds |->
            IF r = "r1"
            THEN [NoPoller EXCEPT !.pc = "sleep", !.camera_id = "camA",
                                  !.last_motion_state = Some(FALSE),
                                  !.last_observed = Some(FALSE),
                                  !.reported = {FALSE, TRUE},
                                  !.appended = CacheCapacity - 1, !.tasks = 1,
                                  !.last_poll = RaceStart,
                                  !.wake_at = RaceStart + PollIntervalMs]
            ELSE NoPoller]
    /\ motion = [c \in Cameras |-> FALSE]
    /\ task = [t \in Tasks |-> IdleTask]
    /\ now = RaceStart
    /\ requests = 1
    /\ calc = NoCalc

\* the first client pulls, the second pulls or unsubscribes
RaceRequests(t) ==
    {[route |-> "subscription", camera_id |-> "camA", sub_id |-> "r1", doc |-> d] :
        d \in IF t = "t1" THEN {4, 5} ELSE {4, 7}}

NextRace ==
    \/ \E t \in Tasks : Reply(t)
    \/ \E t \in Tasks : \E req \in RaceRequests(t) : HandleRequest(t, req)
    \/ \E t \in Tasks : CameraRespond(t, [kind |-> "ok", doc |-> 1])
    \/ \E t \in Tasks : PullLoop(t)
    \/ \E t \in Tasks : PullAcquire(t)
    \/ \E t \in Tasks : PullDrain(t)
    \/ \E t \in Tasks : PullWake(t)
    \/ \E r \in RefIds : PollerWake(r)
    \/ \E r \in RefIds : PollerQueryDone(r, "state")
    \/ \E r \in RefIds : PollerAppend(r)
    \/ \E r \in RefIds : PollerTrim(r)
    \/ \E r \in RefIds :
            /\ poller[r].pc = "sleep"
            /\ poller[r].last_motion_state = Some(motion[poller[r].camera_id])
            /\ MotionChange(poller[r].camera_id)
    \/ \E r \in RefIds :
            /\ poller[r].pc = "sleep"
            /\ poller[r].wake_at <= RaceStart + 2 * PollIntervalMs
            /\ Advance(poller[r].wake_at)

SpecRace == InitRace /\ [][NextRace]_vars

-----------------------------------------------------------------------------
(* SpecCross: the subscription r1 of camA, as SpecRace finds it, and one   *)
(* client at a time that sends PullMessages, Renew and Unsubscribe for r1  *)
(* to the subscription route of camA and to that of camB.                  *)

CrossRequests ==
    {[route |-> "subscription", camera_id |-> c, sub_id |-> "r1", doc |-> d] :
        c \in Cameras, d \in {4, 6, 7}}

NextCross ==
    \/ \E t \in Tasks : Reply(t)
    \/ Quiet /\ \E req \in CrossRequests : HandleRequest("t1", req)
    \/ Quiet /\ \E o \in EventOutcomes : CameraRespond("t1", o)
    \/ Quiet /\ PullLoop("t1")
    \/ Quiet /\ PullAcquire("t1")
    \/ Quiet /\ PullDrain("t1")
    \/ Quiet /\ PullWake("t1")
    \/ Quiet /\ \E r \in RefIds : PollerWake(r)
    \/ Quiet /\ \E r \in RefIds : PollerQueryDone(r, "state")
    \/ Quiet /\ \E r \in RefIds : PollerAppend(r)
    \/ Quiet /\ \E r \in RefIds : PollerTrim(r)
    \/ Quiet /\ \E r \in RefIds : poller[r].pc = "sleep" /\ MotionChange(poller[r].camera_id)
    \/ Quiet /\ \E at \in Timers : at <= RaceStart + 2 * PollIntervalMs /\ Advance(at)

SpecCross == InitRace /\ [][NextCross]_vars

-----------------------------------------------------------------------------
(* SpecFair: the subscription r1 of camA at the time SpecRace begins, with *)
(* the last PendingEvents events still in its cache, and one client that   *)
(* calls PullMessages again and again, with MessageLimit 10, 1 or 0.  The  *)
(* motion alarm changes until ChangesEnd; the clock moves while the poller *)
(* sleeps, to the next wake-up or deadline and not past it, until          *)
(* ClockEnd.  The                                                          *)
(* handler task and the poller task each take their next    *)
(* step if it is possible again and again (the runtime schedules every     *)
(* ready task, and the lock of the cache is granted in turn), and so does  *)
(* the clock.                                                              *)

ChangesEnd == RaceStart + PollIntervalMs
ClockEnd == ChangesEnd + PollIntervalMs + 1000 * DefaultTimeoutSecs + CheckIntervalMs

PendingEvents == 2

InitFair ==
    /\ subscriptions =
        [r \in {"r1"} |->
            [_subscription_ref |-> r, camera_id |-> "camA",
             camera_subscription_url |-> extract_subscription_url(CameraDocs[1]),
             _created_at |-> 0, expires_at |-> 1000 * LifetimeSecs]]
    /\ event_cache = [r \in RefIds |->
            IF r = "r1"
            THEN SubSeq(EarlierEvents, CacheCapacity - PendingEvents, CacheCapacity - 1)
            ELSE <<>>]
    /\ delivered = [r \in RefIds |->
            IF r = "r1" THEN CacheCapacity - PendingEvents - 1 ELSE 0]
    /\ cache_lock = [r \in RefIds |-> "free"]
    /\ poller = [r \in RefIds |->
            IF r = "r1"
            THEN [NoPoller EXCEPT !.pc = "sleep", !.camera_id = "camA",
                                  !.last_motion_state = Some(FALSE),
                                  !.last_observed = Some(FALSE),
                                  !.reported = {FALSE, TRUE},
                                  !.appended = CacheCapacity - 1, !.tasks = 1,
                                  !.last_poll = RaceStart,
                                  !.wake_at = RaceStart + PollIntervalMs]
            ELSE NoPoller]
    /\ motion = [c \in Cameras |-> FALSE]
    /\ task = [t \in Tasks |-> IdleTask]
    /\ now = RaceStart
    /\ requests = 1
    /\ calc = NoCalc

FairRequests ==
    {[route |-> "subscription", camera_id |-> "camA", sub_id |-> "r1", doc |-> d] :
        d \in {4, 5, 15}}

ClientCalls == \E req \in FairRequests : Accept("t1", req) /\ UNCHANGED requests

CameraChanges ==
    \E r \in RefIds :
        /\ poller[r].pc = "sleep"
        /\ poller[r].last_motion_state = Some(motion[poller[r].camera_id])
        /\ now <= ChangesEnd
        /\ MotionChange(poller[r].camera_id)

TimePasses ==
    \E at \in Timers :
        /\ at <= ClockEnd
        /\ \A r \in RefIds : poller[r].pc \in {"none", "sleep"}
        /\ \A other \in Timers : at <= other
        /\ Advance(at)

\* the steps of the client's handler task
ClientStep ==
    \/ Reply("t1")
    \/ Quiet /\ ClientCalls
    \/ Quiet /\ PullLoop("t1")
    \/ Quiet /\ PullAcquire("t1")
    \/ Quiet /\ PullDrain("t1")
    \/ Quiet /\ PullWake("t1")

\* the steps of the poller task of r1
PollerStep ==
    \/ Quiet /\ PollerWake("r1")
    \/ Quiet /\ PollerQueryDone("r1", "state")
    \/ Quiet /\ PollerAppend("r1")
    \/ Quiet /\ PollerTrim("r1")

NextFair ==
    \/ ClientStep
    \/ PollerStep
    \/ Quiet /\ CameraChanges
    \/ Quiet /\ TimePasses

\* each task is scheduled again and again, and the clock runs
Fairness ==
    /\ SF_vars(ClientStep)
    /\ SF_vars(PollerStep)
    /\ SF_vars(Quiet /\ TimePasses)

SpecFair == InitFair /\ [][NextFair]_vars /\ Fairness

-----------------------------------------------------------------------------
(* Properties of the routes, checked under Spec.                           *)

\* the request of task t was accepted and is not yet answered or just answered
Accepted(t) == task[t].pc # "idle"

\* the handler of task t has returned its response
Answered(t) == task[t].pc = "done"

\* the request of task t names a registered camera and its envelope parses
WellFormed(t) ==
    /\ task[t].req.camera_id \in Cameras
    /\ Envelopes[task[t].req.doc].ok

\* the action SoapEnvelope::extract_action finds in the request of task t
ActionOf(t) == ExtractAction(Envelopes[task[t].req.doc])

(* C1: on every service route a request whose camera id is not in the      *)
(* registry is answered 404 "Camera not found" at once, whatever its body, *)
(* and its handler never sends anything to a camera.                       *)
C1_UnknownCameraNotFound ==
    \A t \in Tasks :
        Accepted(t) /\ task[t].req.camera_id \notin Cameras
            => /\ Answered(t)
               /\ task[t].status = 404
               /\ task[t].calls = 0

\* an unknown camera was sent a body that does not even parse, on the
\* subscription route, and got 404
C1_Witness ==
    \E t \in Tasks :
        /\ Answered(t)
        /\ task[t].req.camera_id = UnknownCamera
        /\ task[t].req.route = "subscription"
        /\ ~Envelopes[task[t].req.doc].ok
        /\ task[t].status = 404

C3_TransportErrorIs500 ==
    \A t \in Tasks :
        Answered(t) /\ task[t].outcome.kind \in {"transport_error", "http_error"}
            => task[t].status = 500

\* the camera answered a forwarded request with a non-2xx status and a SOAP
\* fault, and the client was answered 200 with that body
C3_Non2xxAnswered200 ==
    \E t \in Tasks :
        /\ Answered(t)
        /\ task[t].outcome = [kind |-> "http_error", doc |-> 2]
        /\ task[t].status = 200
        /\ task[t].body = "camera_body"

(* C4: a handler sends at most one SOAP request to the camera; a handler   *)
(* of PullMessages sends none; and a handler whose camera call failed has  *)
(* sent exactly the one that failed.                                       *)
C4_AtMostOneCameraCall ==
    \A t \in Tasks :
        /\ task[t].calls <= 1
        /\ task[t].op = "PullMessages" => task[t].calls = 0
        /\ Answered(t) /\ task[t].outcome.kind = "transport_error" => task[t].calls = 1

\* with a subscription in the table, a camera call failed and its handler
\* answered 500 after that one call
C4_Witness ==
    \E t \in Tasks :
        /\ Answered(t)
        /\ task[t].outcome.kind = "transport_error"
        /\ task[t].calls = 1
        /\ task[t].status = 500
        /\ DOMAIN subscriptions # {}

(* C5: a PullMessages, Renew or Unsubscribe on the subscription route      *)
(* naming a reference that was never issued is answered 404, and no camera *)
(* call is made for it.                                                    *)
C5_UnknownRefNotFound ==
    \A t \in Tasks :
        (/\ Answered(t)
         /\ WellFormed(t)
         /\ task[t].req.route = "subscription"
         /\ task[t].req.sub_id = UnknownRef
         /\ ActionOf(t) \in SubscriptionActions)
            => task[t].status = 404 /\ task[t].calls = 0

\* a PullMessages naming a reference that was never issued was answered 500
C5_UnknownRefAnswered500 ==
    \E t \in Tasks :
        /\ Answered(t)
        /\ WellFormed(t)
        /\ task[t].req.route = "subscription"
        /\ task[t].req.sub_id = UnknownRef
        /\ ActionOf(t) = "PullMessages"
        /\ task[t].status = 500
        /\ task[t].calls = 0

\* the actions the match of each route names
ImplementedOn(route) ==
    CASE route = "device_service" -> DeviceActions
      [] route = "media_service" -> MediaActions
      [] route = "event_service" -> EventsActions
      [] route = "subscription" -> SubscriptionActions
      [] OTHER -> {}

\* task t carries a parsed request to a registered camera, on a route that
\* matches on the action, and the action is none the route names
Unimplemented(t) ==
    /\ Accepted(t)
    /\ WellFormed(t)
    /\ task[t].req.route \in {"device_service", "media_service", "event_service",
                              "subscription"}
    /\ ActionOf(t) \notin ImplementedOn(task[t].req.route)

-----------------------------------------------------------------------------
(* Properties of the subscription engine, checked under SpecEvents and     *)
(* SpecCache.                                                              *)

\* IsMotion of the i-th entry of a sequence of cached events
IsMotion(events, i) == events[i].event_xml.is_motion

\* what one step of the poller of r does to the cache
C7_Step(r) ==
    \* a poll appends exactly when it observes a state other than the last
    \* one observed (none, before the first poll that succeeds)
    /\ poller[r].pc = "query" /\ poller'[r].pc # "query"
        => (poller'[r].pc = "lock"
                <=> poller'[r].last_observed # poller[r].last_observed)
    \* and what it appends is one event carrying the state just observed, which
    \* is not the state of the event appended before
    /\ poller[r].pc = "lock" /\ poller'[r].pc # "lock"
        => /\ poller'[r].appended = poller[r].appended + 1
           /\ event_cache'[r] =
                Append(event_cache[r], event_cache'[r][Len(event_cache'[r])])
           /\ Some(IsMotion(event_cache'[r], Len(event_cache'[r]))) = poller[r].last_observed
           /\ Some(IsMotion(event_cache'[r], Len(event_cache'[r])))
                # poller[r].last_motion_state
    /\ poller'[r].appended # poller[r].appended => poller[r].pc = "lock"
    \* neighbours in the cache alternate
    /\ \A i \in 1..(Len(event_cache'[r]) - 1) :
            IsMotion(event_cache'[r], i) # IsMotion(event_cache'[r], i + 1)

(* C7: the poller appends one event exactly when a poll observes a motion  *)
(* state different from the one it observed last, and none otherwise, so   *)
(* consecutive events of one poller carry alternating IsMotion values.     *)
C7_EdgeTriggered == [][\A r \in RefIds : C7_Step(r)]_vars

\* three polls of one poller, two events: one poll saw no change
C7_Witness ==
    \E r \in RefIds :
        /\ poller[r].pc = "sleep"
        /\ poller[r].last_poll = 3 * PollIntervalMs
        /\ poller[r].appended = 2
        /\ Len(event_cache[r]) = 2
        /\ IsMotion(event_cache[r], 1) # IsMotion(event_cache[r], 2)

\* what another task can see of the cache of r
C8_State(r) ==
    \* at most CacheCapacity entries, and they are the most recently appended
    \* ones that no handler has taken, in append order
    /\ cache_lock[r] = "free"
        => /\ Len(event_cache[r]) <= CacheCapacity
           /\ \A i \in 1..Len(event_cache[r]) :
                event_cache[r][i].seq = poller[r].appended - Len(event_cache[r]) + i
    \* the poller appends as soon as it has the lock, however full the cache is
    /\ poller[r].pc = "lock" /\ cache_lock[r] = "free" => ENABLED PollerAppend(r)

\* the poller of r, having appended to CacheCapacity entries, drops the oldest
C8_Step(r) ==
    /\ poller[r].pc = "lock" /\ poller'[r].pc = "trim"
        => Len(event_cache'[r]) <= CacheCapacity + 1
    /\ poller[r].pc = "trim" /\ poller'[r].pc # "trim"
        => event_cache'[r] = IF Len(event_cache[r]) = CacheCapacity + 1
                             THEN Tail(event_cache[r])
                             ELSE event_cache[r]

(* C8: whenever its lock is free a cache holds at most 100 entries; an     *)
(* append to a cache of 100 entries drops the oldest one and leaves the    *)
(* 100 most recent in append order; and the poller appends without waiting *)
(* for a handler to take events.                                           *)
C8_CacheBounded ==
    /\ [](\A r \in RefIds : C8_State(r))
    /\ [][\A r \in RefIds : C8_Step(r)]_vars

\* the cache overflowed while no PullMessages was ever sent: it holds the
\* CacheCapacity most recent events
C8_Witness ==
    \E r \in RefIds :
        /\ requests = 1
        /\ cache_lock[r] = "free"
        /\ poller[r].appended = CacheCapacity + 2
        /\ Len(event_cache[r]) = CacheCapacity
        /\ event_cache[r][1].seq = 3

(* C9: the events a PullMessages handler has collected are in the order    *)
(* the poller appended them, and each was appended after every event an    *)
(* earlier PullMessages on the same subscription delivered.                *)
C9_AppendOrder ==
    \A t \in Tasks :
        task[t].op = "PullMessages"
            => /\ \A i \in 1..(Len(task[t].events) - 1) :
                    task[t].events[i].seq < task[t].events[i + 1].seq
               /\ \A i \in 1..Len(task[t].events) :
                    task[t].events[i].seq > task[t].floor

\* a PullMessages returned two events after an earlier one had delivered one
C9_Witness ==
    \E t \in Tasks :
        /\ Answered(t)
        /\ task[t].op = "PullMessages"
        /\ task[t].floor >= 1
        /\ Len(task[t].events) >= 2

(* C10: a PullMessages with timeout PT1S on a subscription whose poller    *)
(* has seen one and the same motion state at every poll since the          *)
(* subscription was created returns no event.                              *)
C10_NoChangeNoEvents ==
    \A t \in Tasks :
        (/\ Answered(t)
         /\ task[t].op = "PullMessages"
         /\ task[t].status = 200
         /\ task[t].timeout_secs = 1
         /\ Cardinality(poller[task[t].sub_ref].reported) <= 1)
            => task[t].events = <<>>

\* the first PullMessages after the create returned the event of the first
\* poll, although the camera never left the state it started in
C10_FirstPollDelivered ==
    \E t \in Tasks :
        /\ Answered(t)
        /\ task[t].op = "PullMessages"
        /\ task[t].timeout_secs = 1
        /\ task[t].floor = 0
        /\ poller[task[t].sub_ref].reported = {FALSE}
        /\ poller[task[t].sub_ref].appended = 1
        /\ Len(task[t].events) = 1

\* the positions of a handler inside pull_messages, after the lookup
PullPcs == {"pull_loop", "pull_lock", "pull_drain", "pull_sleep"}

\* what one step of the PullMessages handler t does
C11_Step(t) ==
    \* a reference found in the table takes the handler into the wait loop
    /\ (/\ task[t].pc = "idle"
        /\ task'[t].pc # "idle"
        /\ Plans[task'[t].req].kind = "pull"
        /\ task'[t].sub_ref \in DOMAIN subscriptions)
            => task'[t].pc = "pull_loop" /\ task'[t].events = <<>>
    \* the wait loop ends in a PullMessagesResponse, answered 200
    /\ task[t].pc \in PullPcs /\ task'[t].pc \notin PullPcs
        => /\ task'[t].pc = "done"
           /\ task'[t].status = 200
           /\ task'[t].body = "PullMessagesResponse"
    \* which lists what the handler took from the cache, and nothing else
    /\ task[t].pc \in PullPcs /\ task'[t] # task[t]
        => /\ Len(task'[t].events) >= Len(task[t].events)
           /\ event_cache[task[t].sub_ref] =
                SubSeq(task'[t].events, Len(task[t].events) + 1, Len(task'[t].events))
                    \o event_cache'[task[t].sub_ref]
           /\ SubSeq(task'[t].events, 1, Len(task[t].events)) = task[t].events

(* C11: a PullMessages whose reference is in the table at the lookup is    *)
(* always answered 200 with a PullMessagesResponse that lists exactly the  *)
(* events the handler took from the cache: none, when the cache stayed     *)
(* empty until the deadline.                                               *)
C11_PullAlwaysAnswers == [][\A t \in Tasks : C11_Step(t)]_vars

\* a PullMessages waited until its deadline on an empty cache and was
\* answered 200 with no event
C11_Witness ==
    \E t \in Tasks :
        /\ Answered(t)
        /\ task[t].op = "PullMessages"
        /\ task[t].status = 200
        /\ task[t].events = <<>>
        /\ task[t].deadline > task[t].start
        /\ now >= task[t].deadline

-----------------------------------------------------------------------------
(* Properties of the life of a subscription, checked under SpecLife and    *)
(* Spec.                                                                   *)

\* every record of the table has its one poller
C12_State ==
    \A r \in DOMAIN subscriptions :
        /\ r \in RefIds
        /\ poller[r].tasks = 1
        /\ poller[r].pc # "none"
        /\ poller[r].camera_id = subscriptions[r].camera_id

\* the handler of a create receives the camera's answer
CreateReturns ==
    \E t \in Tasks :
        /\ task[t].pc = "camera_call"
        /\ task[t].op = "CreatePullPointSubscription"
        /\ task'[t].pc = "done"

\* pollers start with the insert of their record, in a create, and never stop
C12_Step(r) ==
    /\ poller'[r].tasks # poller[r].tasks
        => /\ CreateReturns
           /\ r \notin DOMAIN subscriptions
           /\ r \in DOMAIN subscriptions'
    /\ r \notin DOMAIN subscriptions /\ r \in DOMAIN subscriptions'
        => poller[r].tasks = 0 /\ poller'[r].tasks = 1
    /\ poller[r].pc # "none" => poller'[r].pc # "none"

(* C12: every subscription record in the table has exactly one poller      *)
(* task, bound to its cache and its camera; the poller is started by the   *)
(* create that inserts the record, and no other step starts a poller or    *)
(* stops one.                                                              *)
C12_OnePollerPerRecord ==
    /\ []C12_State
    /\ [][\A r \in RefIds : C12_Step(r)]_vars

\* a Renew and polls have happened on a subscription that still has its one
\* poller, while a second subscription exists
C12_Witness ==
    /\ DOMAIN subscriptions = RefIds
    /\ \E t \in Tasks :
        /\ Answered(t)
        /\ task[t].op = "Renew"
        /\ task[t].sub_ref = "r1"
        /\ task[t].status = 200
    /\ poller["r1"].tasks = 1
    /\ poller["r1"].appended = 1

\* the response of task t carries the proxy URL of reference ref
CarriesProxyUrl(response, camera_id, ref) ==
    \E i \in 1..Len(response) : response[i] = Tx(ProxyUrl(camera_id, ref))

\* what the return of a successful create has done
C13_Step(t) ==
    (/\ task[t].pc = "camera_call"
     /\ task[t].op = "CreatePullPointSubscription"
     /\ task'[t].pc = "done"
     /\ task'[t].status = 200)
        => LET ref == task'[t].sub_ref IN
           /\ ref \notin DOMAIN subscriptions
           /\ DOMAIN subscriptions' = DOMAIN subscriptions \cup {ref}
           /\ \A r \in DOMAIN subscriptions : subscriptions'[r] = subscriptions[r]
           /\ subscriptions'[ref].camera_id = task[t].req.camera_id
           /\ CarriesProxyUrl(task'[t].response, task[t].req.camera_id, ref)

(* C13: whatever the camera answered, a create answered 200 has added one  *)
(* record under a reference not in the table before, owned by the camera   *)
(* addressed, has changed no other record, and its response carries the    *)
(* proxy URL {base}/onvif/{cameraId}/subscription/{ref} of that reference. *)
C13_CreateReachable == [][\A t \in Tasks : C13_Step(t)]_vars

\* a create was answered 200 with the camera's response as it came: a record
\* and its poller exist under a reference the response does not carry
C13_UnreachableRecord ==
    \E t \in Tasks :
        /\ Answered(t)
        /\ task[t].op = "CreatePullPointSubscription"
        /\ task[t].status = 200
        /\ task[t].outcome = [kind |-> "ok", doc |-> 3]
        /\ task[t].sub_ref \in DOMAIN subscriptions
        /\ poller[task[t].sub_ref].pc # "none"
        /\ task[t].response = CameraDocs[3]

\* the table without the record of reference ref
Without(ref) == [r \in DOMAIN subscriptions \ {ref} |-> subscriptions[r]]

\* task t accepts a request that makes it call the camera for operation op
\* on a reference that is in the table
Forwards(t, op) ==
    /\ task[t].pc = "idle"
    /\ task'[t].pc = "camera_call"
    /\ task'[t].op = op
    /\ task'[t].sub_ref \in DOMAIN subscriptions

\* the camera call of task t for operation op on a reference in the table ends
Returns(t, op) ==
    /\ task[t].pc = "camera_call"
    /\ task[t].op = op
    /\ task[t].sub_ref \in DOMAIN subscriptions
    /\ task'[t].pc = "done"

\* what an Unsubscribe on a reference in the table does, and what follows
C14_Step(t) ==
    \* one Unsubscribe goes to the path of the camera's own subscription address
    /\ Forwards(t, "Unsubscribe")
        => /\ task'[t].calls = 1
           /\ task'[t].path =
                subscription_path(subscriptions[task'[t].sub_ref].camera_subscription_url)
    \* when the camera has answered, the record is gone and nothing else changed
    /\ (Returns(t, "Unsubscribe") /\ task'[t].outcome.kind # "transport_error")
        => /\ task'[t].calls = 1
           /\ task'[t].status = 200
           /\ task'[t].response = CameraDocs[task'[t].outcome.doc]
           /\ subscriptions' = Without(task[t].sub_ref)
    \* a PullMessages for a reference not in the table fails at the lookup
    /\ (/\ task[t].pc = "idle"
        /\ task'[t].pc # "idle"
        /\ Plans[task'[t].req].kind = "pull"
        /\ task'[t].sub_ref \notin DOMAIN subscriptions)
            => /\ task'[t].pc = "done"
               /\ task'[t].body = "Error: Subscription not found"
               /\ task'[t].events = <<>>

(* C14: an Unsubscribe on a reference in the table forwards one            *)
(* Unsubscribe to the camera and removes the record: once the call has     *)
(* returned the camera's response the reference is not in the table, it    *)
(* never returns to it, and a PullMessages for it fails at the lookup with *)
(* "Subscription not found".                                               *)
C14_UnsubscribeRemoves ==
    [][/\ \A t \in Tasks : C14_Step(t)
       /\ \A r \in RefIds :
            poller[r].pc # "none" /\ r \notin DOMAIN subscriptions
                => r \notin DOMAIN subscriptions']_vars

\* after its Unsubscribe a reference is gone from the table, and a
\* PullMessages for it was answered with the lookup error
C14_Witness ==
    \E t \in Tasks :
        /\ Answered(t)
        /\ task[t].op = "PullMessages"
        /\ task[t].sub_ref \in RefIds
        /\ poller[task[t].sub_ref].pc # "none"
        /\ task[t].sub_ref \notin DOMAIN subscriptions
        /\ task[t].body = "Error: Subscription not found"

\* the table with the expiry of reference ref set to a lifetime from now
Renewed(ref) ==
    [r \in DOMAIN subscriptions |->
        IF r = ref
        THEN [subscriptions[r] EXCEPT !.expires_at = now + 1000 * LifetimeSecs]
        ELSE subscriptions[r]]

\* the camera call of a Renew of task t ends
RenewReturns(t) ==
    /\ task[t].pc = "camera_call"
    /\ task[t].op = "Renew"
    /\ task'[t].pc = "done"

\* what a Renew does
C15_Step(t) ==
    \* one Renew goes to the camera, for a reference in the table or not
    /\ (task[t].pc = "idle" /\ task'[t].pc # "idle" /\ task'[t].op = "Renew")
        => /\ task'[t].pc = "camera_call"
           /\ task'[t].calls = 1
           /\ task'[t].path = ForwardPath(task'[t].sub_ref)
    \* when the camera has answered: its response is returned, the record of a
    \* reference in the table expires a lifetime from now, nothing else changed
    /\ (RenewReturns(t) /\ task'[t].outcome.kind # "transport_error")
        => /\ task'[t].calls = 1
           /\ task'[t].status = 200
           /\ task'[t].response = CameraDocs[task'[t].outcome.doc]
           /\ subscriptions' = Renewed(task[t].sub_ref)
           /\ DOMAIN subscriptions' = DOMAIN subscriptions
           /\ poller' = poller
           /\ event_cache' = event_cache

(* C15: a Renew forwards one Renew to the camera and returns the camera's  *)
(* response; the record of a reference in the table gets the expiry "time  *)
(* of the renew plus 600 s" and nothing else in the table changes; for a   *)
(* reference not in the table no record is added or changed.               *)
C15_RenewExtends == [][\A t \in Tasks : C15_Step(t)]_vars

\* a Renew on a reference in the table was answered after time had passed,
\* and the record expires a lifetime after the answer
C15_Witness ==
    \E t \in Tasks :
        /\ Answered(t)
        /\ task[t].op = "Renew"
        /\ task[t].status = 200
        /\ task[t].sub_ref \in DOMAIN subscriptions
        /\ now > 0
        /\ subscriptions[task[t].sub_ref].expires_at = now + 1000 * LifetimeSecs

-----------------------------------------------------------------------------
(* SoapEnvelope::parse and to_xml as pure functions: SpecParse draws an    *)
(* envelope from a bounded family, parses it and serializes what parse     *)
(* returned.                                                               *)

\* the variables of the gateway, which a pure function leaves alone
machine == <<subscriptions, event_cache, cache_lock, poller, motion, task, now,
             requests, delivered>>

\* the gateway at rest, with a pure function about to be applied to an input
InitPure(inputs) ==
    /\ subscriptions = [r \in {} |-> 0]
    /\ event_cache = [r \in RefIds |-> <<>>]
    /\ cache_lock = [r \in RefIds |-> "free"]
    /\ poller = [r \in RefIds |-> NoPoller]
    /\ motion = [c \in Cameras |-> FALSE]
    /\ task = [t \in Tasks |-> IdleTask]
    /\ now = 0
    /\ requests = 0
    /\ delivered = [r \in RefIds |-> 0]
    /\ calc \in inputs

\* the name of the child of Body at each position
ChildNames == <<"Foo", "Bar", "Baz", "Qux">>

\* a child written <Foo></Foo> ("plain"), <tds:Foo token="a">x</tds:Foo>
\* ("prefixed"), <tds:Foo/> ("empty"),
\* <tr2:Foo xmlns:tr2="...ver20/media/wsdl"><tr2:Type>All</tr2:Type></tr2:Foo>
\* ("ver20"), or <tds:Foo><tt:Item>x</tt:Item><tt:Flag/></tds:Foo> ("nested")
Child(kind, name) ==
    CASE kind = "plain" -> <<St("", name, <<>>), En("", name)>>
      [] kind = "ver20" ->
            <<St("tr2", name, <<<<"xmlns:tr2", Ver20MediaNs>>>>), St("tr2", "Type", <<>>),
              Tx(<<"All">>), En("tr2", "Type"), En("tr2", name)>>
      [] kind = "prefixed" ->
            <<St("tds", name, <<<<"token", "a">>>>), Tx(<<"x">>), En("tds", name)>>
      [] kind = "empty" -> <<Em("tds", name, <<>>)>>
      [] OTHER -> <<St("tds", name, <<>>), St("tt", "Item", <<>>), Tx(<<"x">>),
                    En("tt", "Item"), Em("tt", "Flag", <<>>), En("tds", name)>>

RECURSIVE Children(_, _)
\* the children of kinds kinds[i..], named by position
Children(kinds, i) ==
    IF i > Len(kinds) THEN <<>>
    ELSE Child(kinds[i], ChildNames[i]) \o Children(kinds, i + 1)

\* the envelope described by `in`: Envelope, Header and Body with prefix
\* in.prefix; no Header, one with a Security element, or one with a
\* self-closing element; the children in a Body ("Body"), in the Envelope
\* itself ("loose"), or neither
EnvelopeOf(in) ==
    LET p == in.prefix
        header ==
            CASE in.header = "none" -> <<>>
              [] in.header = "security" ->
                    <<St(p, "Header", <<>>),
                      St("wsse", "Security", <<<<"mustUnderstand", "1">>>>),
                      Tx(<<"u">>), En("wsse", "Security"), En(p, "Header")>>
              [] OTHER -> <<St(p, "Header", <<>>), Em("wsa", "ReplyTo", <<>>),
                            En(p, "Header")>> IN
    <<St(p, "Envelope", <<<<"xmlns:SOAP-ENV", "soap-envelope">>, <<"id", "e1">>,
                          <<"xmlns:tds", "device">>>>)>>
    \o header
    \o (CASE in.body = "Body" -> <<St(p, "Body", <<>>)>> \o Children(in.children, 1)
                                    \o <<En(p, "Body")>>
          [] in.body = "loose" -> Children(in.children, 1)
          [] OTHER -> <<>>)
    \o <<En(p, "Envelope")>>

\* the documents parse is applied to: the envelope described, whole or
\* with its last in.cut tags missing (the input ends inside an element)
ParseInputs ==
    LET kinds == {"plain", "prefixed", "empty", "nested", "ver20"}
        inputs == [prefix : {"", "SOAP-ENV"},
                   header : {"none", "security", "flag"},
                   body : {"Body", "none", "loose"},
                   children : UNION {[1..n -> kinds] : n \in 0..MaxChildren},
                   cut : 0..MaxCut] IN
    {[pc |-> "envelope", input |-> in,
      doc |-> SubSeq(EnvelopeOf(in), 1, Len(EnvelopeOf(in)) - in.cut),
      parsed |-> ParseErr(""), xml |-> <<>>, sent |-> <<>>] :
        in \in {x \in inputs : /\ x.body = "none" => x.children = <<>>
                                /\ x.cut < Len(EnvelopeOf(x))}}

\* SoapEnvelope::parse is applied to the document
DoParse ==
    /\ calc.pc = "envelope"
    /\ calc' = [calc EXCEPT !.pc = "parsed", !.parsed = Parse(calc.doc)]
    /\ UNCHANGED machine

\* to_xml is applied to the envelope parse returned
DoSerialize ==
    /\ calc.pc = "parsed"
    /\ calc.parsed.ok
    /\ calc' = [calc EXCEPT !.pc = "serialized", !.xml = to_xml(calc.parsed)]
    /\ UNCHANGED machine

\* handle_media2_service, and handle_media_service for a request that
\* contains the ver20 media namespace: the raw XML of the parsed body is
\* posted to the camera's Media2 endpoint
DoForward(route) ==
    /\ calc.pc = "parsed"
    /\ calc.parsed.ok
    /\ route = "media_service" => ContainsVer20(calc.doc)
    /\ calc' = [calc EXCEPT !.pc = "forwarded",
                            !.sent = [route |-> route, path |-> ServicePath("Media2"),
                                      soap_body |-> calc.parsed.body.raw_xml]]
    /\ UNCHANGED machine

NextParse ==
    \/ DoParse
    \/ DoSerialize
    \/ \E route \in {"Media2", "media_service"} : DoForward(route)

SpecParse == InitPure(ParseInputs) /\ [][NextParse]_vars

-----------------------------------------------------------------------------
(* Properties of parse and to_xml, checked under SpecParse.                *)

\* parse has been applied
Parsed == calc.pc \in {"parsed", "serialized"}

\* a well-formed envelope whose Body has a first child
HasFirstChild(in) == in.body = "Body" /\ in.children # <<>> /\ in.cut = 0

(* C16: for every well-formed envelope, parse returns as body.action the   *)
(* local name of the first child of Body, however that child and the       *)
(* Envelope and Body tags are written and whatever follows the child.      *)
C16_ActionIsFirstChild ==
    Parsed /\ HasFirstChild(calc.input)
        => calc.parsed.ok /\ ExtractAction(calc.parsed) = ChildNames[1]

\* parse accepted an envelope whose Body starts with <Foo></Foo> and returned
\* another action
C16_LaterChildWins ==
    /\ Parsed
    /\ HasFirstChild(calc.input)
    /\ calc.input.children[1] = "plain"
    /\ calc.parsed.ok
    /\ ExtractAction(calc.parsed) = ChildNames[Len(calc.input.children)]
    /\ ExtractAction(calc.parsed) # ChildNames[1]

\* the document has no Body element, under any prefix
NoBodyElement(doc) == \A i \in 1..Len(doc) : doc[i].n # "Body"

(* C17: parse of a document without a Body element returns an error and    *)
(* no envelope, whatever else the document contains.                       *)
C17_NoBodyIsError ==
    Parsed /\ NoBodyElement(calc.doc)
        => /\ ~calc.parsed.ok
           /\ calc.parsed.error = "SOAP Body not found"
           /\ calc.parsed = ParseErr("SOAP Body not found")

\* a document with namespaces, a Header and elements but no Body was refused
C17_Witness ==
    /\ Parsed
    /\ NoBodyElement(calc.doc)
    /\ calc.input.prefix = ""
    /\ calc.input.header = "security"
    /\ calc.input.body = "loose"
    /\ calc.input.children # <<>>
    /\ ~calc.parsed.ok

\* the set of the pairs of a sequence of attributes
AttrSet(attrs) == {attrs[i] : i \in 1..Len(attrs)}

RECURSIVE Tree(_)
\* the element tree of a document: the declaration dropped, a self-closing
\* element written as a start and an end tag, attributes without their order
Tree(doc) ==
    IF doc = <<>> THEN <<>>
    ELSE LET tok == Head(doc)
             el == [k |-> "Start", p |-> tok.p, n |-> tok.n, a |-> AttrSet(tok.a),
                    t |-> tok.t] IN
         (CASE tok.k = "Decl" -> <<>>
            [] tok.k = "Empty" -> <<el, [el EXCEPT !.k = "End", !.a = {}]>>
            [] OTHER -> <<[el EXCEPT !.k = tok.k]>>) \o Tree(Tail(doc))

(* C18: for every envelope parse accepts, serializing the parsed           *)
(* namespaces, header and body raw XML yields a document with the same     *)
(* element tree: same elements, nesting, prefixes, attributes and text.    *)
C18_RoundTrip == calc.pc = "serialized" => Tree(calc.xml) = Tree(calc.doc)

\* a self-closing element of an accepted envelope is absent from the
\* serialized document
C18_ElementLost ==
    /\ calc.pc = "serialized"
    /\ \E i \in 1..Len(calc.doc) :
        /\ calc.doc[i].k = "Empty"
        /\ \A j \in 1..Len(calc.xml) : calc.xml[j].n # calc.doc[i].n

-----------------------------------------------------------------------------
(* The response translator (translator/reolink.rs).  A response is a       *)
(* sequence of pieces of text: a name, one punctuation character, or the   *)
(* inside of a quoted value.  Every pattern the translator searches for is *)
(* a sequence of pieces, and no piece contains a pattern or a part of one, *)
(* so a pattern occurs in the text exactly where its pieces occur in the   *)
(* sequence of pieces.                                                     *)

\* the places where pat occurs in text
Occurrences(text, pat) ==
    {i \in 1..(Len(text) - Len(pat) + 1) : SubSeq(text, i, i + Len(pat) - 1) = pat}

\* str::contains
Contains(text, pat) == Occurrences(text, pat) # {}

RECURSIVE ReplaceFrom(_, _, _, _)
\* the text from place `from` on, with every match of pat at or after `from`
\* replaced: the search resumes behind each match
ReplaceFrom(text, pat, rep, from) ==
    LET i == FirstIndex({j \in Occurrences(text, pat) : j >= from}) IN
    IF i = 0 THEN SubSeq(text, from, Len(text))
    ELSE SubSeq(text, from, i - 1) \o rep \o ReplaceFrom(text, pat, rep, i + Len(pat))

\* str::replace: every non-overlapping occurrence of pat, from the left
Replace(text, pat, rep) == ReplaceFrom(text, pat, rep, 1)

\* "xmlns:p="
XmlnsOf(prefix) == <<"xmlns", ":", prefix, "=">>

\* add_namespace: ` xmlns:p="uri"` goes before the first ">" at or after the
\* first "<SOAP-ENV:Envelope"; without either the text is returned as it is
add_namespace(xml, prefix, uri) ==
    LET pos == FirstIndex(Occurrences(xml, <<"<", "SOAP-ENV", ":", "Envelope">>))
        end_pos == FirstIndex({i \in pos..Len(xml) : xml[i] = ">"}) IN
    IF pos = 0 \/ end_pos = 0 THEN xml
    ELSE SubSeq(xml, 1, end_pos - 1)
            \o <<" ", "xmlns", ":", prefix, "=", "\"", uri, "\"">>
            \o SubSeq(xml, end_pos, Len(xml))

\* the step shared by the quirks: declare the prefix if it is used in a tag
\* and not declared
AddIfMissing(xml, prefix, uri) ==
    IF ~Contains(xml, XmlnsOf(prefix)) /\ Contains(xml, <<"<", prefix, ":">>)
    THEN add_namespace(xml, prefix, uri)
    ELSE xml

\* a faulty variant of fix_device_info_namespace: declares tds and tt whenever
\* they are used, declared or not
fix_device_info_namespace_Unguarded(xml) ==
    LET fixed == IF Contains(xml, <<"<", "tds", ":">>)
                 THEN add_namespace(xml, "tds", "http://www.onvif.org/ver10/device/wsdl")
                 ELSE xml IN
    IF Contains(fixed, <<"<", "tt", ":">>)
    THEN add_namespace(fixed, "tt", "http://www.onvif.org/ver10/schema")
    ELSE fixed

fix_device_info_namespace(xml) ==
    AddIfMissing(AddIfMissing(xml, "tds", "http://www.onvif.org/ver10/device/wsdl"),
                 "tt", "http://www.onvif.org/ver10/schema")

normalize_media_profiles(xml) ==
    AddIfMissing(AddIfMissing(xml, "trt", "http://www.onvif.org/ver10/media/wsdl"),
                 "tt", "http://www.onvif.org/ver10/schema")

\* the namespaces of add_missing_namespaces, in its order
KnownNamespaces ==
    <<<<"tds", "http://www.onvif.org/ver10/device/wsdl">>,
      <<"trt", "http://www.onvif.org/ver10/media/wsdl">>,
      <<"tev", "http://www.onvif.org/ver10/events/wsdl">>,
      <<"tt", "http://www.onvif.org/ver10/schema">>,
      <<"tns1", "http://www.onvif.org/ver10/topics">>,
      <<"wsnt", "http://docs.oasis-open.org/wsn/b-2">>>>

RECURSIVE AddNamespacesFrom(_, _)
AddNamespacesFrom(xml, i) ==
    IF i > Len(KnownNamespaces) THEN xml
    ELSE AddNamespacesFrom(
            AddIfMissing(xml, KnownNamespaces[i][1], KnownNamespaces[i][2]), i + 1)

add_missing_namespaces(xml) == AddNamespacesFrom(xml, 1)

\* "tns1:RuleEngine/<detector>/<event>"
Topic(detector, event) == <<"tns1", ":", "RuleEngine", "/">> \o detector \o <<"/">> \o event

\* "tns1:RuleEngine/CellMotionDetector/Motion"
CellMotionTopic == Topic(<<"Cell", "Motion", "Detector">>, <<"Motion">>)

\* event_mappings of translate_smart_events, in its order
EventMappings ==
    <<<<<<"PeopleDetect">>, <<"Motion">>>>,
      <<<<"PersonDetect", "ion">>, <<"Motion">>>>,
      <<Topic(<<"MyRuleDetector">>, <<"PeopleDetect">>), CellMotionTopic>>,
      <<<<"VehicleDetect">>, <<"Motion">>>>,
      <<<<"VehicleDetect", "ion">>, <<"Motion">>>>,
      <<Topic(<<"MyRuleDetector">>, <<"VehicleDetect">>), CellMotionTopic>>,
      <<<<"DogCatDetect">>, <<"Motion">>>>,
      <<<<"PetDetect", "ion">>, <<"Motion">>>>,
      <<Topic(<<"MyRuleDetector">>, <<"DogCatDetect">>), CellMotionTopic>>,
      <<<<"FaceDetect">>, <<"Motion">>>>,
      <<<<"FaceDetect", "ion">>, <<"Motion">>>>,
      <<<<"SmartDetect", "ion">>, <<"Motion">>>>,
      <<<<"AIDetect", "ion">>, <<"Motion">>>>>>

RECURSIVE ApplyMappingsFrom(_, _)
\* the loop over event_mappings from its turn i on: one str::replace per
\* mapping, in order (a turn that matches nothing hands on the text it got)
ApplyMappingsFrom(xml, i) ==
    IF i > Len(EventMappings) THEN xml
    ELSE LET fixed == Replace(xml, EventMappings[i][1], EventMappings[i][2]) IN
         IF fixed = xml THEN ApplyMappingsFrom(xml, i + 1)
         ELSE ApplyMappingsFrom(fixed, i + 1)

\* `<tt:SimpleItem Name="State" Value="true"/></tt:Data></tt:Message></wsnt:Message>`
StateInjection ==
    <<"<", "tt", ":", "SimpleItem", " ", "Name", "=", "\"", "State", "\"", " ",
      "Value", "=", "\"", "true", "\"", "/", ">",
      "<", "/", "tt", ":", "Data", ">", "<", "/", "tt", ":", "Message", ">",
      "<", "/", "wsnt", ":", "Message", ">">>

\* the State field added to a motion event that has a SimpleItem and no State
InjectState(xml) ==
    IF /\ Contains(xml, <<"Motion">>) /\ ~Contains(xml, <<"State">>)
       /\ Contains(xml, <<"<", "SimpleItem">>)
       /\ ~Contains(xml, <<"Name", "=", "\"", "State", "\"">>)
    THEN Replace(xml, <<"<", "/", "wsnt", ":", "Message", ">">>, StateInjection)
    ELSE xml

translate_smart_events(xml) ==
    LET fixed == ApplyMappingsFrom(xml, 1)
        named == IF ~Contains(fixed, XmlnsOf("tns1")) /\ Contains(fixed, <<"tns1", ":">>)
                 THEN add_namespace(fixed, "tns1", "http://www.onvif.org/ver10/topics")
                 ELSE fixed IN
    InjectState(named)

QuirkNames == {"fix_device_info_namespace", "normalize_media_profiles",
               "translate_smart_events", "add_missing_namespaces"}

\* one turn of the loop of translate_response: the quirk of that name
ApplyQuirk(quirk, xml) ==
    CASE quirk = "fix_device_info_namespace" -> fix_device_info_namespace(xml)
      [] quirk = "normalize_media_profiles" -> normalize_media_profiles(xml)
      [] quirk = "translate_smart_events" -> translate_smart_events(xml)
      [] quirk = "add_missing_namespaces" -> add_missing_namespaces(xml)
      [] OTHER -> xml

-----------------------------------------------------------------------------
(* The quirks as pure functions: SpecQuirks draws a camera response from a *)
(* bounded family, applies one quirk to it, and applies it once more.      *)

\* <p:name> and </p:name> as pieces
Open(p, name) == <<"<", p, ":", name, ">">>
Close(p, name) == <<"<", "/", p, ":", name, ">">>

\* the topic a camera reports: a PeopleDetect or VehicleDetection topic of
\* its rule detector, the cell motion topic, or one no mapping names
TopicText(kind) ==
    CASE kind = "people" -> Topic(<<"MyRuleDetector">>, <<"PeopleDetect">>)
      [] kind = "vehicle" -> Topic(<<"MyRuleDetector">>, <<"VehicleDetect", "ion">>)
      [] kind = "cell" -> CellMotionTopic
      [] OTHER -> <<"tns1", ":", "Device", "/", "Trigger", "/", "DigitalInput">>

RECURSIVE TopicElements(_)
TopicElements(kinds) ==
    IF kinds = <<>> THEN <<>>
    ELSE Open("wsnt", "Topic") \o TopicText(Head(kinds)) \o Close("wsnt", "Topic")
            \o TopicElements(Tail(kinds))

\* the message of a notification: none, or one whose SimpleItem is written
\* without prefix ("bare"), with the tt prefix ("prefixed"), or is the State
\* item itself ("state")
MessageOf(kind) ==
    LET SimpleItem(lead, name) ==
            lead \o <<"SimpleItem", " ", "Name", "=", "\"">> \o name
                 \o <<"\"", " ", "Value", "=", "\"", "true", "\"", "/", ">">> IN
    IF kind = "none" THEN <<>>
    ELSE Open("wsnt", "Message") \o Open("tt", "Message") \o Open("tt", "Data")
            \o (CASE kind = "bare" -> SimpleItem(<<"<">>, <<"Is", "Motion">>)
                  [] kind = "prefixed" -> SimpleItem(<<"<", "tt", ":">>, <<"Is", "Motion">>)
                  [] OTHER -> SimpleItem(<<"<">>, <<"State">>))
            \o Close("tt", "Data") \o Close("tt", "Message") \o Close("wsnt", "Message")

\* the response described by `in`: the content of a device, media or events
\* response, in a SOAP-ENV:Envelope that declares in.declared, or bare
ResponseOf(in) ==
    LET content ==
            CASE in.service = "device" ->
                    Open("tds", "GetDeviceInformationResponse")
                        \o <<"<", "tt", ":", "Model", "/", ">">>
                        \o Close("tds", "GetDeviceInformationResponse")
              [] in.service = "media" ->
                    Open("trt", "Profiles") \o <<"<", "tt", ":", "Name", "/", ">">>
                        \o Close("trt", "Profiles")
              [] OTHER ->
                    Open("wsnt", "NotificationMessage") \o TopicElements(in.topics)
                        \o MessageOf(in.item) \o Close("wsnt", "NotificationMessage")
        decls ==
            (IF "tt" \in in.declared
             THEN <<" ">> \o XmlnsOf("tt")
                    \o <<"\"", "http://www.onvif.org/ver10/schema", "\"">>
             ELSE <<>>)
            \o (IF "tns1" \in in.declared
                THEN <<" ">> \o XmlnsOf("tns1")
                        \o <<"\"", "http://www.onvif.org/ver10/topics", "\"">>
                ELSE <<>>) IN
    IF in.envelope
    THEN <<"<", "SOAP-ENV", ":", "Envelope">> \o decls \o <<">">>
            \o content \o Close("SOAP-ENV", "Envelope")
    ELSE content

\* the responses a quirk is applied to
QuirkInputs ==
    LET inputs == [envelope : BOOLEAN,
                   declared : SUBSET {"tt", "tns1"},
                   service : {"device", "media", "events"},
                   topics : UNION {[1..n -> {"people", "vehicle", "cell", "other"}] :
                                    n \in 0..MaxTopics},
                   item : {"none", "bare", "prefixed", "state"}] IN
    {[pc |-> "response", input |-> in, xml |-> ResponseOf(in), quirk |-> "",
      once |-> <<>>, twice |-> <<>>] :
        in \in {x \in inputs :
                    /\ x.service # "events" => x.topics = <<>> /\ x.item = "none"
                    /\ ~x.envelope => x.declared = {}}}

RECURSIVE translate_response(_, _)
\* ReolinkEventTranslator::translate_response: the quirks of the list, one
\* after the other, each applied to the result of the one before
translate_response(xml, quirks) ==
    IF quirks = <<>> THEN xml
    ELSE translate_response(ApplyQuirk(Head(quirks), xml), Tail(quirks))

\* a faulty variant of translate: the quirks are applied whatever the model
translate_AnyModel(xml, camera_model, quirks) ==
    [ok |-> TRUE, xml |-> translate_response(xml, quirks)]

\* ResponseTranslator::translate: Ok(the translation) for the model "reolink",
\* Ok(the input) for every other model
translate(xml, camera_model, quirks) ==
    IF camera_model = "reolink"
    THEN [ok |-> TRUE, xml |-> translate_response(xml, quirks)]
    ELSE [ok |-> TRUE, xml |-> xml]

\* the calls of translate: a response, the model of the camera and its list
\* of quirks, which may hold a name no quirk has
TranslateInputs ==
    LET names == QuirkNames \cup {"no_such_quirk"}
        described == {in \in [envelope : {TRUE}, declared : {{}},
                              service : {"device", "media", "events"},
                              topics : {<<>>, <<"people">>},
                              item : {"none", "bare"}] :
                        in.service # "events" => in.topics = <<>> /\ in.item = "none"} IN
    {[pc |-> "untranslated", xml |-> ResponseOf(in), camera_model |-> m, quirks |-> q,
      result |-> [ok |-> FALSE, xml |-> <<>>]] :
        in \in described, m \in {"reolink", "Reolink", "hikvision"},
        q \in UNION {[1..n -> names] : n \in 0..MaxQuirks}}

\* translate is applied to the response
DoTranslate ==
    /\ calc.pc = "untranslated"
    /\ calc' = [calc EXCEPT !.pc = "translated",
                            !.result = translate(calc.xml, calc.camera_model, calc.quirks)]
    /\ UNCHANGED machine

\* the host of a camera address "host:port": address.split(':').next()
CameraIp(address) ==
    LET colon == FirstIndex({i \in 1..Len(address) : address[i] = ":"}) IN
    IF colon = 0 THEN address ELSE SubSeq(address, 1, colon - 1)

\* fix_localhost_urls, and the same six replacements of
\* MediaService::fix_stream_uri_response: "rtsp://127.0.0.1:" becomes
\* "rtsp://<camera_ip>:", likewise localhost and 0.0.0.0, likewise http
fix_localhost_urls(xml, address) ==
    LET To(fixed, scheme, host) ==
            Replace(fixed, <<scheme, ":", "/", "/", host, ":">>,
                    <<scheme, ":", "/", "/">> \o CameraIp(address) \o <<":">>) IN
    To(To(To(To(To(To(xml, "rtsp", "127.0.0.1"), "rtsp", "localhost"), "rtsp", "0.0.0.0"),
                "http", "127.0.0.1"), "http", "localhost"), "http", "0.0.0.0")

\* MediaService::fix_stream_uri_response: xmlns:tt is declared on every
\* "<SOAP-ENV:Envelope" if "<tt:Uri>" occurs and "xmlns:tt=" does not, then
\* the loopback hosts are replaced
fix_stream_uri_response(xml, address) ==
    LET envelope == <<"<", "SOAP-ENV", ":", "Envelope">>
        fixed == IF ~Contains(xml, XmlnsOf("tt")) /\ Contains(xml, Open("tt", "Uri"))
                 THEN Replace(xml, envelope,
                              envelope \o <<" ">> \o XmlnsOf("tt")
                                \o <<"\"", "http://www.onvif.org/ver10/schema", "\"">>)
                 ELSE xml IN
    fix_localhost_urls(fixed, address)

\* scheme://host:port/stream, or scheme://host/stream
UriOf(scheme, host, port) ==
    <<scheme, ":", "/", "/">> \o host \o (IF port THEN <<":", "554">> ELSE <<>>)
        \o <<"/", "stream">>

\* the media responses: a tt:Uri with a URI of some scheme and host, with or
\* without port, alone or followed by a second tt:Uri, in an envelope or
\* bare; and the configured address of the camera
MediaInputs ==
    LET inputs == [scheme : {"rtsp", "http", "https"},
                   host : {"127.0.0.1", "localhost", "0.0.0.0", "10.0.0.5"},
                   port : BOOLEAN, second : BOOLEAN, envelope : BOOLEAN,
                   address : {<<"192.168.1.10", ":", "8000">>, <<"cam.local">>}]
        content(in) ==
            Open("tt", "Uri") \o UriOf(in.scheme, <<in.host>>, in.port) \o Close("tt", "Uri")
            \o (IF in.second
                THEN Open("tt", "Uri") \o <<"rtsp", ":", "/", "/", "localhost", ":", "8554",
                                            "/", "sub">> \o Close("tt", "Uri")
                ELSE <<>>) IN
    {[pc |-> "media", input |-> in,
      xml |-> IF in.envelope
              THEN Open("SOAP-ENV", "Envelope") \o content(in) \o Close("SOAP-ENV", "Envelope")
              ELSE content(in),
      fn |-> "", result |-> <<>>] : in \in inputs}

\* one of the two functions is applied to the media response
DoFixUrls(fn) ==
    /\ calc.pc = "media"
    /\ calc' = [calc EXCEPT
                    !.pc = "fixed", !.fn = fn,
                    !.result = IF fn = "fix_localhost_urls"
                               THEN fix_localhost_urls(calc.xml, calc.input.address)
                               ELSE fix_stream_uri_response(calc.xml, calc.input.address)]
    /\ UNCHANGED machine

\* "{base_url}/onvif/{camera_id}/{service}"
ProxyServiceUrl(base_url, camera_id, service) ==
    base_url \o <<"/", "onvif", "/", camera_id, "/", service>>

RECURSIVE RewriteService(_, _, _, _, _)
\* the while loop of rewrite_capability_urls for one service, from
\* search_start on: at the next "/onvif/<service>" the text from the last
\* "http://" before it (or, if there is none, the last "https://") up to the
\* end of the path is the old URL, and str::replace puts the proxy URL for
\* every occurrence of it; without such a start the search goes on behind
\* the path
RewriteService(result, service, search_start, camera_id, base_url) ==
    LET path_pattern == <<"/", "onvif", "/", service>>
        abs_pos == FirstIndex({i \in Occurrences(result, path_pattern) : i >= search_start})
        Before(pat) == {i \in Occurrences(result, pat) : i + Len(pat) - 1 < abs_pos}
        RFind(hits) == IF hits = {} THEN 0 ELSE CHOOSE i \in hits : \A j \in hits : j <= i
        http == RFind(Before(<<"http", ":", "/", "/">>))
        url_start == IF http # 0 THEN http ELSE RFind(Before(<<"https", ":", "/", "/">>))
        old_url == SubSeq(result, url_start, abs_pos + Len(path_pattern) - 1)
        new_url == ProxyServiceUrl(base_url, camera_id, service) IN
    IF abs_pos = 0 THEN result
    ELSE IF url_start # 0
    THEN RewriteService(Replace(result, old_url, new_url), service,
                        url_start + Len(new_url), camera_id, base_url)
    ELSE RewriteService(result, service, abs_pos + Len(path_pattern), camera_id, base_url)

\* the services of rewrite_capability_urls, in its order
ServiceNames == <<"device_service", "media_service", "event_service", "ptz_service",
                  "imaging_service", "analytics_service", "deviceIO_service", "Media2">>

RECURSIVE RewriteServicesFrom(_, _, _, _)
\* the loop over the services from its turn i on
RewriteServicesFrom(result, i, camera_id, base_url) ==
    IF i > Len(ServiceNames) THEN result
    ELSE LET next == RewriteService(result, ServiceNames[i], 1, camera_id, base_url) IN
         IF next = result THEN RewriteServicesFrom(result, i + 1, camera_id, base_url)
         ELSE RewriteServicesFrom(next, i + 1, camera_id, base_url)

\* DeviceService::rewrite_capability_urls
rewrite_capability_urls(xml, camera_id, base_url) ==
    RewriteServicesFrom(xml, 1, camera_id, base_url)

RECURSIVE XAddrs(_, _, _)
\* a sequence of address elements: an absolute http or https URL of a
\* service on the camera, a relative service path, or a namespace URL; with
\* `proxy` a proxy URL stands for each absolute service URL
XAddrs(kinds, proxy, camera_id) ==
    IF kinds = <<>> THEN <<>>
    ELSE LET kind == Head(kinds)
             camera == <<":", "/", "/", "192.168.1.10", ":", "8000", "/", "onvif", "/">>
             Abs(scheme, service) ==
                IF proxy = <<>> THEN <<scheme>> \o camera \o <<service>>
                ELSE ProxyServiceUrl(proxy, camera_id, service) IN
         Open("tt", "XAddr")
         \o (CASE kind = "device" -> Abs("http", "device_service")
               [] kind = "media" -> Abs("http", "media_service")
               [] kind = "media2" -> Abs("http", "Media2")
               [] kind = "events_https" -> Abs("https", "event_service")
               [] kind = "relative_media" -> <<"/", "onvif", "/", "media_service">>
               [] OTHER -> <<"http", ":", "/", "/", "www.onvif.org", "/", "ver10", "/",
                             "schema">>)
         \o Close("tt", "XAddr") \o XAddrs(Tail(kinds), proxy, camera_id)

\* the capability responses and the camera and base URL they are rewritten for
CapabilityInputs ==
    LET kinds == {"device", "media", "media2", "events_https", "relative_media",
                  "namespace"} IN
    {[pc |-> "capabilities", kinds |-> k, camera_id |-> "camA",
      base_url |-> <<"http", ":", "/", "/", "proxy", ":", "8000">>,
      xml |-> XAddrs(k, <<>>, "camA"), result |-> <<>>] :
        k \in UNION {[1..n -> kinds] : n \in 1..MaxAddrs}}

\* rewrite_capability_urls is applied to the response
DoRewriteUrls ==
    /\ calc.pc = "capabilities"
    /\ calc' = [calc EXCEPT !.pc = "rewritten",
                            !.result = rewrite_capability_urls(calc.xml, calc.camera_id,
                                                               calc.base_url)]
    /\ UNCHANGED machine

\* a quirk is applied to the response
DoQuirk(quirk) ==
    /\ calc.pc = "response"
    /\ calc' = [calc EXCEPT !.pc = "once", !.quirk = quirk,
                            !.once = ApplyQuirk(quirk, calc.xml)]
    /\ UNCHANGED machine

\* the same quirk is applied to its own result
DoQuirkAgain ==
    /\ calc.pc = "once"
    /\ calc' = [calc EXCEPT !.pc = "twice", !.twice = ApplyQuirk(calc.quirk, calc.once)]
    /\ UNCHANGED machine

NextQuirks ==
    \/ \E quirk \in QuirkNames : DoQuirk(quirk)
    \/ DoQuirkAgain
    \/ DoTranslate
    \/ \E fn \in {"fix_localhost_urls", "fix_stream_uri_response"} : DoFixUrls(fn)
    \/ DoRewriteUrls

SpecQuirks == InitPure(QuirkInputs \cup TranslateInputs \cup MediaInputs \cup CapabilityInputs) /\ [][NextQuirks]_vars

-----------------------------------------------------------------------------
(* Properties of the quirks, checked under SpecQuirks.                     *)

\* translate_smart_events has been applied to the response
Remapped == calc.pc \in {"once", "twice"} /\ calc.quirk = "translate_smart_events"

PeopleTopic == Topic(<<"MyRuleDetector">>, <<"PeopleDetect">>)

(* C19: after translate_smart_events, each occurrence of the topic         *)
(* tns1:RuleEngine/MyRuleDetector/PeopleDetect is the topic                *)
(* tns1:RuleEngine/CellMotionDetector/Motion: the result has that topic    *)
(* once for each PeopleDetect topic of the input, besides those the input  *)
(* had already.                                                            *)
C19_PeopleTopicRemapped ==
    Remapped =>
        Cardinality(Occurrences(calc.once, CellMotionTopic))
            = Cardinality(Occurrences(calc.xml, CellMotionTopic))
                + Cardinality(Occurrences(calc.xml, PeopleTopic))

\* a PeopleDetect topic came out as tns1:RuleEngine/MyRuleDetector/Motion
C19_HalfRemapped ==
    /\ Remapped
    /\ Contains(calc.xml, PeopleTopic)
    /\ ~Contains(calc.xml, Topic(<<"MyRuleDetector">>, <<"Motion">>))
    /\ Contains(calc.once, Topic(<<"MyRuleDetector">>, <<"Motion">>))
    /\ ~Contains(calc.once, CellMotionTopic)

\* the prefixes the quirks declare
QuirkPrefixes == {KnownNamespaces[i][1] : i \in 1..Len(KnownNamespaces)}

\* no prefix is declared more than once in the text
DeclaredOnce(xml) ==
    \A p \in QuirkPrefixes : Cardinality(Occurrences(xml, XmlnsOf(p))) <= 1

(* C20: each quirk is idempotent: applied to its own result it returns     *)
(* that result, and neither application declares a namespace twice.        *)
C20_QuirksIdempotent ==
    calc.pc = "twice"
        => /\ calc.twice = calc.once
           /\ DeclaredOnce(calc.once)
           /\ DeclaredOnce(calc.twice)

\* a quirk that declared a namespace and injected the State field the first
\* time has been applied again
C20_Witness ==
    /\ calc.pc = "twice"
    /\ calc.quirk = "translate_smart_events"
    /\ ~Contains(calc.xml, XmlnsOf("tns1"))
    /\ Contains(calc.once, XmlnsOf("tns1"))
    /\ ~Contains(calc.xml, <<"State">>)
    /\ Contains(calc.once, StateInjection)

RECURSIVE KnownInOrder(_, _, _)
\* the transformations named by the first n names of `known`, the first
\* innermost
KnownInOrder(known, xml, n) ==
    IF n = 0 THEN xml
    ELSE LET x == KnownInOrder(known, xml, n - 1) IN
         CASE known[n] = "fix_device_info_namespace" -> fix_device_info_namespace(x)
           [] known[n] = "normalize_media_profiles" -> normalize_media_profiles(x)
           [] known[n] = "translate_smart_events" -> translate_smart_events(x)
           [] known[n] = "add_missing_namespaces" -> add_missing_namespaces(x)

(* C21: translate never returns an error; for every model other than       *)
(* "reolink" it returns its input, whatever the quirk list; for "reolink"  *)
(* it returns what the transformations of the known names of the list give *)
(* in list order, the unknown names left out.                              *)
C21_TranslateByModel ==
    calc.pc = "translated"
        => /\ calc.result.ok
           /\ calc.camera_model # "reolink" => calc.result.xml = calc.xml
           /\ calc.camera_model = "reolink" =>
                LET known == SelectSeq(calc.quirks, LAMBDA q : q \in QuirkNames) IN
                calc.result.xml = KnownInOrder(known, calc.xml, Len(known))

\* a response was translated for the defined model by a list that holds an
\* unknown name before a known one, and the known quirk changed it
C21_Witness ==
    /\ calc.pc = "translated"
    /\ calc.camera_model = "reolink"
    /\ calc.quirks = <<"no_such_quirk", "translate_smart_events">>
    /\ calc.result.xml # calc.xml
    /\ calc.result.xml = translate_smart_events(calc.xml)

LoopbackHosts == {"127.0.0.1", "localhost", "0.0.0.0"}

\* the response holds a rtsp or http URI with a loopback host
HasLoopbackUri(xml) ==
    \E scheme \in {"rtsp", "http"}, host \in LoopbackHosts :
        Contains(xml, <<scheme, ":", "/", "/", host>>)

(* C22: in a media response every rtsp:// or http:// URI with the host     *)
(* 127.0.0.1, localhost or 0.0.0.0 gets the host of the camera's address,  *)
(* its port and path kept, and no such loopback URI remains.               *)
C22_LoopbackRewritten ==
    calc.pc = "fixed"
        => /\ ~HasLoopbackUri(calc.result)
           /\ (calc.input.scheme \in {"rtsp", "http"} /\ calc.input.host \in LoopbackHosts)
                => Contains(calc.result,
                            UriOf(calc.input.scheme, CameraIp(calc.input.address),
                                  calc.input.port))

\* a http URI on a loopback host without a port came through as it was
C22_PortlessLoopbackKept ==
    /\ calc.pc = "fixed"
    /\ calc.input.scheme = "http"
    /\ calc.input.host \in LoopbackHosts
    /\ ~calc.input.port
    /\ Contains(calc.result, UriOf("http", <<calc.input.host>>, FALSE))

\* for the responses whose first URI is written with a port, the rewriting
\* is as C22 says
C22_WithPortRewritten == (calc.pc = "fixed" /\ calc.input.port) => C22_LoopbackRewritten

(* C23: in a capability response each absolute service URL ending in a     *)
(* known service path is replaced by {base}/onvif/{cameraId}/{service},    *)
(* and all other text, relative service paths and the text between two     *)
(* URLs included, is left as it was.                                       *)
C23_OnlyServiceUrlsRewritten ==
    calc.pc = "rewritten" => calc.result = XAddrs(calc.kinds, calc.base_url, calc.camera_id)

\* a relative service path behind an absolute URL was taken for the end of
\* that URL: the elements between them are gone from the response
C23_RelativePathSwallowed ==
    /\ calc.pc = "rewritten"
    /\ calc.kinds = <<"device", "relative_media">>
    /\ ~Contains(calc.result, ProxyServiceUrl(calc.base_url, calc.camera_id, "device_service"))
    /\ Cardinality(Occurrences(calc.result, Open("tt", "XAddr"))) = 1

\* for the responses whose URLs are all absolute http service URLs, the
\* rewriting is as C23 says
C23_AbsoluteHttpRewritten ==
    (calc.pc = "rewritten"
        /\ \A i \in 1..Len(calc.kinds) : calc.kinds[i] \in {"device", "media", "media2"})
    => C23_OnlyServiceUrlsRewritten

(***************************************************************************)
(* WS-Security headers (onvif/auth.rs, camera/client.rs)                   *)
(***************************************************************************)

\* the username and password each camera's client builds its WsSecurityAuth
\* from
Credentials ==
    [camA |-> [username |-> "admin", password |-> <<"s", "3", "c">>],
     camB |-> [username |-> "admin", password |-> <<"c", "4", "m">>]]

\* BASE64.encode, an injective encoding of a byte sequence
Base64(bytes) == [base64 |-> bytes]

\* Sha1 over the bytes fed to the hasher, in the order of the updates
Sha1(bytes) == [sha1 |-> bytes]

NoSecurity == [username |-> "", password_digest |-> <<>>, nonce |-> <<>>, created |-> <<>>]
NoRequest == [camera_id |-> "", use_auth |-> FALSE, header |-> NoSecurity]

\* generate_header with the nonce of every header the same
generate_header_SameNonce(auth, uuid, clock) ==
    LET nonce_bytes == <<"uuid", 0>>
        created == <<"T", clock, "Z">> IN
    [username |-> auth.username,
     password_digest |-> Base64(Sha1(nonce_bytes \o created \o auth.password)),
     nonce |-> Base64(nonce_bytes), created |-> created]

\* generate_header with the password fed to the hasher first
generate_header_PasswordFirst(auth, uuid, clock) ==
    LET nonce_bytes == uuid
        created == <<"T", clock, "Z">> IN
    [username |-> auth.username,
     password_digest |-> Base64(Sha1(auth.password \o nonce_bytes \o created)),
     nonce |-> Base64(nonce_bytes), created |-> created]

\* WsSecurityAuth::generate_header: `uuid` are the bytes of Uuid::new_v4(),
\* `clock` is Utc::now() in milliseconds, which the Created format keeps
generate_header(auth, uuid, clock) ==
    LET nonce_bytes == uuid
        nonce_base64 == Base64(nonce_bytes)
        created == <<"T", clock, "Z">>
        digest == Sha1(nonce_bytes \o created \o auth.password)
        password_digest == Base64(digest) IN
    [username |-> auth.username, password_digest |-> password_digest,
     nonce |-> nonce_base64, created |-> created]

\* the clients before any request: `uuids` counts the values Uuid::new_v4
\* has returned, a value it returns is one it has not returned before
AuthInputs ==
    {[pc |-> "auth", uuids |-> 0, clock |-> 0, hands |-> [t \in Tasks |-> NoRequest],
      wire |-> <<>>]}

\* send_soap_request_with_auth builds the envelope of a request: with
\* use_auth the header is generated by this call
DoBuild(t, camera, use_auth) ==
    /\ calc.pc = "auth"
    /\ calc.hands[t] = NoRequest
    /\ Len(calc.wire) + Cardinality({u \in Tasks : calc.hands[u] # NoRequest}) < MaxHeaders
    /\ calc' = [calc EXCEPT
                  !.hands[t] = [camera_id |-> camera, use_auth |-> use_auth,
                                header |-> IF use_auth
                                           THEN generate_header(Credentials[camera],
                                                                <<"uuid", calc.uuids + 1>>,
                                                                calc.clock)
                                           ELSE NoSecurity],
                  !.uuids = IF use_auth THEN @ + 1 ELSE @]
    /\ UNCHANGED machine

\* the request is posted to the camera
DoPost(t) ==
    /\ calc.pc = "auth"
    /\ calc.hands[t] # NoRequest
    /\ calc' = [calc EXCEPT !.wire = Append(@, calc.hands[t]), !.hands[t] = NoRequest]
    /\ UNCHANGED machine

\* a millisecond passes
DoTick ==
    /\ calc.pc = "auth"
    /\ calc.clock < MaxClock
    /\ calc' = [calc EXCEPT !.clock = @ + 1]
    /\ UNCHANGED machine

NextAuth ==
    \/ \E t \in Tasks, camera \in Cameras, use_auth \in BOOLEAN : DoBuild(t, camera, use_auth)
    \/ \E t \in Tasks : DoPost(t)
    \/ DoTick

SpecAuth == InitPure(AuthInputs) /\ [][NextAuth]_vars

\* the authenticated requests built so far, posted or not
Authenticated ==
    {calc.wire[i] : i \in {j \in DOMAIN calc.wire : calc.wire[j].use_auth}}
    \cup {calc.hands[t] : t \in {u \in Tasks : calc.hands[u].use_auth}}

(* C24: every authenticated request carries a security header generated   *)
(* for it alone: no two requests, built one after the other or at the     *)
(* same time, for the same or for different cameras, carry the same nonce.*)
C24_NonceUnique ==
    /\ \A i, j \in DOMAIN calc.wire :
          (i # j /\ calc.wire[i].use_auth /\ calc.wire[j].use_auth)
          => calc.wire[i].header.nonce # calc.wire[j].header.nonce
    /\ \A t \in Tasks : \A i \in DOMAIN calc.wire :
          (calc.hands[t].use_auth /\ calc.wire[i].use_auth)
          => calc.hands[t].header.nonce # calc.wire[i].header.nonce
    /\ \A t, u \in Tasks :
          (t # u /\ calc.hands[t].use_auth /\ calc.hands[u].use_auth)
          => calc.hands[t].header.nonce # calc.hands[u].header.nonce

\* two tasks hold authenticated requests to the same camera built in the
\* same millisecond, behind one already posted
C24_Witness ==
    /\ calc.pc = "auth"
    /\ Len(calc.wire) = 1 /\ calc.wire[1].use_auth
    /\ \E t, u \in Tasks :
          /\ t # u
          /\ calc.hands[t].use_auth /\ calc.hands[u].use_auth
          /\ calc.hands[t].camera_id = calc.hands[u].camera_id
          /\ calc.hands[t].header.created = calc.hands[u].header.created

(* C25: the digest of a header is Base64(SHA1(nonce bytes ++ created      *)
(* bytes ++ password bytes)), in that order, for the nonce and the        *)
(* created of the same header.                                            *)
C25_DigestOfOwnFields ==
    \A r \in Authenticated :
        r.header.password_digest
            = Base64(Sha1(r.header.nonce.base64 \o r.header.created
                          \o Credentials[r.camera_id].password))

\* headers for both cameras, generated at different times, are on the wire
C25_Witness ==
    /\ calc.pc = "auth"
    /\ \E i, j \in DOMAIN calc.wire :
          /\ calc.wire[i].use_auth /\ calc.wire[j].use_auth
          /\ calc.wire[i].camera_id # calc.wire[j].camera_id
          /\ calc.wire[i].header.created # calc.wire[j].header.created

(***************************************************************************)
(* Lock scopes: what each task holds at its suspension points              *)
(* (camera/manager.rs, onvif/events.rs)                                    *)
(***************************************************************************)

\* one instruction of a task: taking or dropping a guard, the two ends of a
\* camera network call and of a sleep, the ways through the code
Acquire(lock, mode) == [do |-> "acquire", lock |-> lock, mode |-> mode, to |-> 0]
Release(lock) == [do |-> "release", lock |-> lock, mode |-> "", to |-> 0]
Instr(do, to) == [do |-> do, lock |-> "", mode |-> "", to |-> to]

\* get_subscription with its read guard never dropped
get_subscription_GuardKept == <<Acquire("table", "read"), Instr("work", 0)>>

\* EventsService::get_subscription: the read guard lives for the statement
get_subscription == <<Acquire("table", "read"), Release("table")>>

\* CameraManager::get_camera: the read guard is dropped at the return
get_camera == <<Acquire("registry", "read"), Release("registry")>>

\* the drain block of pull_messages with its guard never dropped
DrainBlock_GuardKept == <<Acquire("cache", "write"), Instr("work", 0)>>

\* the inner block of pull_messages: the write guard of the cache lives
\* for the block
DrainBlock == <<Acquire("cache", "write"), Release("cache")>>

\* the table write of create, renew and unsubscribe: the guard is a
\* temporary of the statement
TableWrite == <<Acquire("table", "write"), Release("table")>>

\* the lock and suspension structure of each route handler and of the
\* poller; a "return" goes to `to` when the call failed, a "branch" may
\* go to `to`
Program(op) ==
    CASE op = "forward" -> get_camera \o <<Instr("call", 0), Instr("return", 5)>>
      [] op = "create" ->
            get_camera \o <<Instr("call", 0), Instr("return", 8)>> \o TableWrite
            \o <<Instr("spawn", 0)>>
      [] op \in {"renew", "unsubscribe"} ->
            get_camera \o get_subscription \o <<Instr("call", 0), Instr("return", 9)>>
            \o TableWrite
      [] op = "pull" ->
            get_camera \o get_subscription \o DrainBlock
            \o <<Instr("branch", 11), Instr("sleep", 0), Instr("wake", 0), Instr("jump", 5)>>
      [] OTHER ->
            <<Instr("sleep", 0), Instr("wake", 0), Instr("call", 0), Instr("return", 8),
              Instr("branch", 8), Acquire("cache", "write"), Release("cache"),
              Acquire("last_poll", "write"), Release("last_poll"), Instr("jump", 1)>>

LockTasks == Tasks \cup {"poller"}
HandlerOps == {"forward", "create", "renew", "unsubscribe", "pull"}
IdleRun == [op |-> "", ip |-> 0, held |-> {}]

\* no handler and no poller runs
LockInputs == {[pc |-> "locks", run |-> [t \in LockTasks |-> IdleRun]]}

\* a request for `op` reaches the idle handler task t
DoStart(t, op) ==
    /\ calc.pc = "locks"
    /\ calc.run[t] = IdleRun
    /\ calc' = [calc EXCEPT !.run[t] = [op |-> op, ip |-> 1, held |-> {}]]
    /\ UNCHANGED machine

\* tokio's RwLock: readers share, a writer is alone
Grantable(lock, mode, t) ==
    \A u \in LockTasks \ {t} :
        /\ <<lock, "write">> \notin calc.run[u].held
        /\ mode = "write" => <<lock, "read">> \notin calc.run[u].held

\* task t executes its next instruction; `taken` is whether a call failed
\* or a branch is taken
DoStep(t, taken) ==
    /\ calc.pc = "locks"
    /\ calc.run[t] # IdleRun
    /\ LET r == calc.run[t]
           prog == Program(r.op)
           ins == prog[r.ip]
           ip == IF ins.do = "jump" \/ (taken /\ ins.do \in {"return", "branch"})
                 THEN ins.to ELSE r.ip + 1
           held == CASE ins.do = "acquire" -> r.held \cup {<<ins.lock, ins.mode>>}
                     [] ins.do = "release" ->
                            r.held \ {<<ins.lock, "read">>, <<ins.lock, "write">>}
                     [] OTHER -> r.held
           after == IF ip > Len(prog) THEN IdleRun
                    ELSE [op |-> r.op, ip |-> ip, held |-> held] IN
       /\ taken => ins.do \in {"return", "branch"}
       /\ ins.do = "acquire" => Grantable(ins.lock, ins.mode, t)
       /\ calc' = [calc EXCEPT !.run =
                    [u \in LockTasks |->
                        IF u = t THEN after
                        ELSE IF u = "poller" /\ ins.do = "spawn" /\ calc.run[u] = IdleRun
                        THEN [op |-> "poller", ip |-> 1, held |-> {}]
                        ELSE calc.run[u]]]
    /\ UNCHANGED machine

NextLocks ==
    \/ \E t \in Tasks, op \in HandlerOps : DoStart(t, op)
    \/ \E t \in LockTasks, taken \in BOOLEAN : DoStep(t, taken)

SpecLocks == InitPure(LockInputs) /\ [][NextLocks]_vars

\* the instruction task t executes next
NextInstr(t) ==
    IF calc.run[t] = IdleRun THEN Instr("idle", 0)
    ELSE Program(calc.run[t].op)[calc.run[t].ip]

\* the locks task t holds
HeldLocks(t) == {g[1] : g \in calc.run[t].held}

(* C26: pull_messages holds no lock while it sleeps, and holds the lock of *)
(* the cache only for one drain.                                           *)
C26_PullSleepsUnlocked ==
    \A t \in Tasks : calc.run[t].op = "pull" =>
        /\ NextInstr(t).do = "wake" => HeldLocks(t) = {}
        /\ "cache" \in HeldLocks(t) => NextInstr(t) = Release("cache")

\* a pull sleeps while the poller holds the write guard of the cache
C26_Witness ==
    /\ calc.pc = "locks"
    /\ \E t \in Tasks : calc.run[t].op = "pull" /\ NextInstr(t).do = "wake"
    /\ <<"cache", "write">> \in calc.run["poller"].held

(* C27: no task holds the lock of the subscription table or of the camera  *)
(* registry during a camera network call; create, renew and unsubscribe    *)
(* take the table lock only after their camera call has returned.          *)
C27_NoLockDuringCall ==
    \A t \in LockTasks :
        /\ NextInstr(t).do = "return" => HeldLocks(t) \cap {"table", "registry"} = {}
        /\ (calc.run[t].op \in {"create", "renew", "unsubscribe"}
                /\ <<"table", "write">> \in calc.run[t].held)
            => \E i \in 1..(calc.run[t].ip - 1) : Program(calc.run[t].op)[i].do = "return"

\* a renew waits for the camera while an unsubscribe writes the table and
\* the poller queries the camera
C27_Witness ==
    /\ calc.pc = "locks"
    /\ \E t, u \in Tasks :
          /\ calc.run[t].op = "renew" /\ NextInstr(t).do = "return"
          /\ calc.run[u].op = "unsubscribe" /\ <<"table", "write">> \in calc.run[u].held
    /\ NextInstr("poller").do = "return"

-----------------------------------------------------------------------------
(* Properties of the subscriptions around their expiry, under SpecLate.    *)

\* the poller of r runs and the table has no record for r
Orphaned(r) == poller[r].pc # "none" /\ r \notin DOMAIN subscriptions

\* the expiry time of the record of r has passed
Expired(r) == r \in DOMAIN subscriptions /\ now > subscriptions[r].expires_at

\* the poller of r is at work in an iteration, or sleeps until an instant
\* at most one poll interval ahead at which it wakes
Polling(r) ==
    \/ poller[r].pc \in {"query", "lock", "trim"}
    \/ /\ poller[r].pc = "sleep"
       /\ poller[r].wake_at <= now + PollIntervalMs
       /\ (now >= poller[r].wake_at /\ Quiet) => ENABLED PollerWake(r)

\* one step seen from the poller of r: it stays started, goes round its
\* loop, sleeps one interval when it observed no change, and appends what it
\* observed as a change to the cache of r
C28_Step(r) ==
    poller[r].pc # "none" =>
        /\ poller'[r].pc # "none"
        /\ poller[r].pc = "sleep" => poller'[r].pc \in {"sleep", "query"}
        /\ poller[r].pc = "query" => poller'[r].pc \in {"query", "lock", "sleep"}
        /\ (poller[r].pc = "query" /\ poller'[r].pc = "sleep")
            => /\ poller'[r].last_observed = poller[r].last_motion_state
               /\ poller'[r].wake_at = now + PollIntervalMs
        /\ (poller[r].pc = "lock" /\ poller'[r].pc # "lock")
            => /\ poller'[r].pc = "trim"
               /\ event_cache'[r] = Append(event_cache[r],
                        [event_xml |-> generate_motion_event(poller[r].camera_id,
                                                             poller[r].motion_detected),
                         seq |-> poller[r].appended + 1])

(* C28: no operation stops a started poller: after an unsubscribe has     *)
(* removed the record, and after the expiry time, the poller goes on       *)
(* querying the camera every interval and appending to the cache of the    *)
(* subscription.                                                           *)
C28_PollerNeverStops ==
    /\ [](\A r \in RefIds : poller[r].pc # "none" => Polling(r))
    /\ [][\A r \in RefIds : C28_Step(r)]_vars

\* after the expiry time the poller of the removed r1 has just appended an
\* event to the cache of r1
C28_Witness ==
    /\ Orphaned("r1")
    /\ now > 1000 * LifetimeSecs
    /\ poller["r1"].pc = "trim"
    /\ Len(event_cache["r1"]) > 1

\* the camera call of task t for `op` returns and the handler succeeds
Succeeds(t, op) ==
    /\ task[t].pc = "camera_call" /\ task[t].op = op
    /\ task'[t].pc = "done" /\ task'[t].status = 200

\* one step seen from the table
C29_Step ==
    /\ DOMAIN subscriptions' # DOMAIN subscriptions =>
          \E t \in Tasks :
             \/ /\ Succeeds(t, "CreatePullPointSubscription")
                /\ \E r \in RefIds \ DOMAIN subscriptions :
                      /\ poller[r].pc = "none"
                      /\ DOMAIN subscriptions' = DOMAIN subscriptions \cup {r}
             \/ /\ Succeeds(t, "Unsubscribe")
                /\ DOMAIN subscriptions' = DOMAIN subscriptions \ {task[t].sub_ref}
    /\ \A r \in RefIds : Orphaned(r) => r \notin DOMAIN subscriptions'
    /\ \A r \in RefIds :
          (Expired(r) /\ r \notin DOMAIN subscriptions')
          => \E t \in Tasks : Succeeds(t, "Unsubscribe") /\ task[t].sub_ref = r
    /\ \A t \in Tasks :
          (task[t].pc = "idle" /\ task'[t].op = "PullMessages"
                /\ task'[t].sub_ref \in DOMAIN subscriptions)
          => task'[t].pc = "pull_loop"

(* C29: the set of references in the table changes only by a create,      *)
(* which adds a fresh reference, and by an unsubscribe, which removes its  *)
(* reference; an expired record stays in the table and is served by pull;  *)
(* a removed reference never comes back.                                   *)
C29_TableChanges == [][C29_Step]_vars

\* a pull that began after the expiry time of r1 has returned the event of
\* its cache
C29_Witness ==
    /\ Expired("r1")
    /\ \E t \in Tasks :
          /\ task[t].pc = "done" /\ task[t].op = "PullMessages" /\ task[t].sub_ref = "r1"
          /\ task[t].start > subscriptions["r1"].expires_at
          /\ task[t].status = 200 /\ task[t].events # <<>>

-----------------------------------------------------------------------------
(* Properties of the wait of one PullMessages call, under SpecWait.        *)

\* the timeout of the call in milliseconds: n seconds for PT<n>S, 60 n
\* seconds for PT<n>M, one second for every other text
StatedTimeoutMs ==
    CASE calc.timeout = <<"P", "T", "1", "S">> -> 1000
      [] calc.timeout = <<"P", "T", "2", "S">> -> 2000
      [] calc.timeout = <<"P", "T", "1", "M">> -> 60000
      [] OTHER -> 1000

\* the call of task t has returned without events
ReturnedEmpty(t) ==
    task[t].pc = "done" /\ task[t].status = 200 /\ task[t].events = <<>>

\* the call of task t has returned without events, within one check
\* interval of its timeout
InWindow(t) ==
    /\ now - task[t].start >= StatedTimeoutMs - CheckIntervalMs
    /\ now - task[t].start <= StatedTimeoutMs + CheckIntervalMs

\* one step of the wait of task t: a sleep begins only when the check found
\* nothing and the timeout has not elapsed, and a check that finds an event
\* ends the call with it
C30_Step(t) ==
    (task[t].pc = "pull_drain" /\ task'[t].pc # "pull_drain") =>
        /\ task'[t].pc = "pull_sleep" =>
              /\ event_cache[task[t].sub_ref] = <<>> /\ task[t].events = <<>>
              /\ now - task[t].start < StatedTimeoutMs
              /\ task'[t].wake_at = now + CheckIntervalMs
        /\ event_cache[task[t].sub_ref] # <<>> =>
              task'[t].pc = "done" /\ task'[t].events # <<>>

(* C30: pullMessages sleeps and checks again only while it has collected   *)
(* no event and the timeout has not elapsed; it returns at the first check *)
(* that yields an event, and without events it returns no earlier than     *)
(* the timeout less one check interval and no later than the timeout plus  *)
(* one check interval; the timeout is n seconds for PT<n>S, 60 n seconds   *)
(* for PT<n>M and one second for every other text.                         *)
C30_WaitWindow ==
    /\ [](\A t \in Tasks : ReturnedEmpty(t) => InWindow(t))
    /\ [][\A t \in Tasks : C30_Step(t)]_vars

(* C30, amended: the same for every call whose MessageLimit is not 0.      *)
C30_WaitWindowNonZeroLimit ==
    /\ [](\A t \in Tasks : (ReturnedEmpty(t) /\ task[t].message_limit # 0) => InWindow(t))
    /\ [][\A t \in Tasks : C30_Step(t)]_vars

\* a call with Timeout PT1M and MessageLimit 10 has returned without
\* events a minute after it began
C30_Witness ==
    /\ calc.pc = "wait" /\ calc.timeout = <<"P", "T", "1", "M">>
    /\ ReturnedEmpty("t1")
    /\ task["t1"].message_limit = 10
    /\ now - task["t1"].start = 60000

\* a call with MessageLimit 0 returns at once: with Timeout PT1S it has
\* returned without events a second early
C30_ZeroLimitReturnsAtOnce ==
    /\ calc.pc = "wait" /\ calc.timeout = <<"P", "T", "1", "S">>
    /\ ReturnedEmpty("t1")
    /\ task["t1"].message_limit = 0
    /\ now = task["t1"].start

-----------------------------------------------------------------------------
(* Properties of parse on documents that are not well-formed, under        *)
(* SpecParse.                                                              *)

RECURSIVE OpenAfter(_, _)
\* the elements left open behind the tokens of doc, innermost first, when
\* `open` were open before them; <<"?">> once a tag is no tag or closes an
\* element that is not the innermost open one
OpenAfter(doc, open) ==
    IF doc = <<>> \/ open = <<"?">> THEN open
    ELSE LET tok == Head(doc) IN
         OpenAfter(Tail(doc),
                   CASE tok.k = "Start" -> <<QName(tok)>> \o open
                     [] tok.k = "End" -> IF open # <<>> /\ Head(open) = QName(tok)
                                         THEN Tail(open) ELSE <<"?">>
                     [] tok.k = "Bad" -> <<"?">>
                     [] OTHER -> open)

\* every element of the document is closed, in the order of nesting
WellFormedDoc(doc) == OpenAfter(doc, <<>>) = <<>>

(* C31: parse returns an error, and no envelope, for every document that   *)
(* is not well-formed, a document that ends inside an open Header, Body or *)
(* body child element included.                                            *)
C31_MalformedIsError ==
    (Parsed /\ ~WellFormedDoc(calc.doc)) => ~calc.parsed.ok

\* a document that ends inside the first child of its Body was accepted,
\* with the action and the raw XML read so far
C31_TruncatedAccepted ==
    /\ Parsed
    /\ calc.input.prefix = "" /\ calc.input.body = "Body"
    /\ calc.input.children = <<"plain">> /\ calc.input.cut = 3
    /\ ~WellFormedDoc(calc.doc)
    /\ calc.parsed.ok
    /\ calc.parsed.body.action = ChildNames[1]

\* documents that end inside an open element and are refused are those in
\* which parse has met no Body before the end
C31_TruncatedRefusedOnlyWithoutBody ==
    (Parsed /\ ~WellFormedDoc(calc.doc) /\ ~calc.parsed.ok)
        => calc.parsed.error = "SOAP Body not found"

-----------------------------------------------------------------------------
(* Properties of the ver20 pass-through, under SpecParse.                  *)

\* the request is a whole envelope with a Body
WholeRequest == calc.input.cut = 0 /\ calc.input.body = "Body"

(* C32: when a ver20 media request is forwarded to /onvif/Media2, from the *)
(* Media2 route or from media_service, the body sent to the camera is the  *)
(* complete body subtree of the request: every element, self-closing ones  *)
(* included, with its prefix, attributes and text, in the same order.      *)
C32_BodyForwardedWhole ==
    (calc.pc = "forwarded" /\ WholeRequest)
        => Tree(calc.sent.soap_body) = Tree(Children(calc.input.children, 1))

\* a ver20 request came in on media_service and went to /onvif/Media2 with
\* its elements stripped of the tr2 prefix
C32_PrefixLost ==
    /\ calc.pc = "forwarded" /\ WholeRequest
    /\ calc.sent.route = "media_service" /\ calc.sent.path = "/onvif/Media2"
    /\ calc.input.children = <<"ver20">>
    /\ \A i \in 1..Len(calc.sent.soap_body) : calc.sent.soap_body[i].p = ""
    /\ Len(calc.sent.soap_body) = Len(Children(calc.input.children, 1))

\* a body whose elements have no prefix and are not self-closing is sent
\* as it came
C32_PlainBodyForwarded ==
    (calc.pc = "forwarded" /\ WholeRequest
        /\ \A i \in 1..Len(calc.input.children) : calc.input.children[i] = "plain")
    => Tree(calc.sent.soap_body) = Tree(Children(calc.input.children, 1))

-----------------------------------------------------------------------------
(* Properties of the message limit, under SpecWait.                        *)

\* the call of task t has returned its PullMessagesResponse
Returned(t) ==
    task[t].pc = "done" /\ task[t].status = 200 /\ task[t].op = "PullMessages"

(* C33: pullMessages never returns more events than messageLimit, for      *)
(* every integer the route can pass: with messageLimit 0 it returns at     *)
(* once with no events, and with a negative messageLimit it returns no     *)
(* events.                                                                 *)
C33_LimitRespected ==
    \A t \in Tasks : Returned(t) =>
        /\ task[t].message_limit >= 0 => Len(task[t].events) <= task[t].message_limit
        /\ task[t].message_limit = 0 => now = task[t].start
        /\ task[t].message_limit <= 0 => task[t].events = <<>>

\* a call with MessageLimit -1 has returned an event
C33_NegativeLimitReturnsEvents ==
    /\ calc.pc = "wait" /\ calc.limit = <<"-", "1">>
    /\ Returned("t1")
    /\ task["t1"].message_limit = -1
    /\ task["t1"].events # <<>>

\* a call with a limit of zero or more returns no more events than the
\* limit, and with limit 0 at once
C33_NonNegativeLimitRespected ==
    \A t \in Tasks : (Returned(t) /\ task[t].message_limit >= 0) =>
        /\ Len(task[t].events) <= task[t].message_limit
        /\ task[t].message_limit = 0 => now = task[t].start /\ task[t].events = <<>>

-----------------------------------------------------------------------------
(* Properties of failed camera calls, under SpecLife.  A camera call fails *)
(* when send_soap_request returns Err: the camera could not be reached or  *)
(* its answer could not be read.                                           *)

\* the camera call of task t for operation op ends in failure
Fails(t, op) ==
    /\ task[t].pc = "camera_call"
    /\ task[t].op = op
    /\ task'[t].pc = "done"
    /\ task'[t].outcome.kind = "transport_error"

\* the number of poller tasks ever started
PollersStarted == [r \in RefIds |-> poller[r].tasks]

\* what a failed create does: an error goes to the client, and the table,
\* the pollers and the caches stay as they were
C34_Step(t) ==
    Fails(t, "CreatePullPointSubscription") =>
        /\ task'[t].status = 500 /\ task'[t].body = "Error"
        /\ subscriptions' = subscriptions
        /\ poller' = poller
        /\ event_cache' = event_cache

C35_Step(t) ==
    (Fails(t, "Renew") \/ Fails(t, "Unsubscribe")) =>
        /\ task'[t].status = 500 /\ task'[t].body = "Error"
        /\ subscriptions' = subscriptions
        /\ poller' = poller
        /\ event_cache' = event_cache

\* a PullMessages for a reference in the table gets past the lookup
C35_Pullable(t) ==
    (/\ task[t].pc = "idle"
     /\ task'[t].pc # "idle"
     /\ task'[t].op = "PullMessages"
     /\ task'[t].sub_ref \in DOMAIN subscriptions)
        => task'[t].pc \in {"pull_loop", "done"} /\ task'[t].status # 500

C35_RenewFailed ==
    \E t \in Tasks :
        /\ Answered(t)
        /\ task[t].op = "Renew"
        /\ task[t].outcome.kind = "transport_error"
        /\ task[t].sub_ref \in DOMAIN subscriptions
        /\ now > subscriptions[task[t].sub_ref]._created_at
        /\ subscriptions[task[t].sub_ref].expires_at =
                subscriptions[task[t].sub_ref]._created_at + 1000 * LifetimeSecs

-----------------------------------------------------------------------------
(* Properties of concurrent calls on one subscription, under SpecRace.     *)

\* the sequence numbers of a list of events
SeqsOf(events) == {events[i].seq : i \in 1..Len(events)}

\* no event occurs twice in the list
NoRepeat(events) == Cardinality(SeqsOf(events)) = Len(events)

\* the events the PullMessages call of a task record has collected from
\* the cache of r
HeldBy(rec, r) ==
    IF rec.op = "PullMessages" /\ rec.sub_ref = r THEN SeqsOf(rec.events) ELSE {}

\* at every moment no event is in two places: not twice in the cache, not
\* twice in a call's result, not in the cache and a result, not in the
\* results of two calls; every event is one the poller appended
C36_State ==
    \A r \in RefIds :
        /\ NoRepeat(event_cache[r])
        /\ SeqsOf(event_cache[r]) \subseteq 1..poller[r].appended
        /\ \A t \in Tasks :
            /\ NoRepeat(task[t].events)
            /\ HeldBy(task[t], r) \subseteq 1..poller[r].appended
            /\ HeldBy(task[t], r) \cap SeqsOf(event_cache[r]) = {}
            /\ \A u \in Tasks \ {t} : HeldBy(task[t], r) \cap HeldBy(task[u], r) = {}

\* one step seen from the cache of r: an event enters the cache only as
\* the poller's next append; an event enters a call's result only out of
\* the cache, in the step that removes it; an event leaves the cache only
\* into the result of one call or as the oldest of an overfull cache; an
\* event leaves a call's result only with the response
C36_Step(r) ==
    LET gone == SeqsOf(event_cache[r]) \ SeqsOf(event_cache'[r])
        new == SeqsOf(event_cache'[r]) \ SeqsOf(event_cache[r])
        taken == [t \in Tasks |-> HeldBy(task'[t], r) \ HeldBy(task[t], r)] IN
    /\ new \subseteq {poller[r].appended + 1}
    /\ new # {} => poller'[r].appended = poller[r].appended + 1
    /\ \A t \in Tasks : taken[t] \subseteq gone
    /\ gone # {} =>
        \/ \E t \in Tasks : gone = taken[t] /\ \A u \in Tasks \ {t} : taken[u] = {}
        \/ /\ poller[r].pc = "trim"
           /\ Len(event_cache[r]) > CacheCapacity
           /\ gone = {event_cache[r][1].seq}
           /\ \A t \in Tasks : taken[t] = {}
    /\ \A t \in Tasks :
        HeldBy(task[t], r) \ HeldBy(task'[t], r) # {}
            => task[t].pc = "done" /\ task'[t].pc = "idle"

(* C36: under every interleaving of a poller's appends with one or more    *)
(* concurrent pullMessages calls on the same subscription, each appended   *)
(* event is returned by at most one call and at most once, and at every    *)
(* moment each appended event is exactly one of: still in the cache,       *)
(* already returned, or evicted by overflow.                               *)
C36_EachEventOnce ==
    /\ []C36_State
    /\ [][\A r \in RefIds : C36_Step(r)]_vars

\* two calls on r1 ran at once and each has returned events, the oldest
\* event was evicted by overflow before, and the next oldest is in one of
\* the results
C36_Witness ==
    /\ \A t \in Tasks :
        /\ task[t].pc = "done" /\ task[t].status = 200
        /\ HeldBy(task[t], "r1") # {}
        /\ task[t].start < now
    /\ poller["r1"].appended > CacheCapacity
    /\ 1 \notin SeqsOf(event_cache["r1"])
    /\ \E t \in Tasks : 2 \in HeldBy(task[t], "r1")

\* one call waits for the lock of the cache while the other drains it
C36_Contended ==
    \E t, u \in Tasks :
        /\ task[t].pc = "pull_drain" /\ task[u].pc = "pull_lock"
        /\ task[t].sub_ref = task[u].sub_ref

-----------------------------------------------------------------------------
(* Properties of failed motion queries, under SpecEvents.                  *)

\* the motion query of the poller of r fails in this step
QueryFails(r) ==
    /\ poller[r].pc = "query"
    /\ poller'[r].failed_polls = poller[r].failed_polls + 1

\* what a failed query does: no event, the last observed state kept, the
\* next poll one interval later
C37_Step(r) ==
    /\ QueryFails(r) =>
        /\ poller'[r].pc = "sleep"
        /\ poller'[r].wake_at = now + PollIntervalMs
        /\ poller'[r].last_motion_state = poller[r].last_motion_state
        /\ poller'[r].last_observed = poller[r].last_observed
        /\ poller'[r].appended = poller[r].appended
        /\ event_cache' = event_cache
    \* a query that succeeds after failed ones appends exactly when the state
    \* it observes differs from the last one observed before them
    /\ (/\ poller[r].pc = "query" /\ poller'[r].pc # "query"
        /\ poller[r].failed_polls > 0 /\ poller'[r].failed_polls = 0)
        => (poller'[r].pc = "lock"
                <=> poller'[r].last_observed # poller[r].last_motion_state)
    \* a poller that runs never stops
    /\ poller[r].pc # "none" => poller'[r].pc # "none"

(* C37: when a motion-state query fails, the poller appends no event,      *)
(* keeps its last observed state and polls again at the next interval; it  *)
(* never terminates on an error.  A state observed before and again after  *)
(* a run of failed polls produces no event.                                *)
C37_FailedPollKeepsState == [][\A r \in RefIds : C37_Step(r)]_vars

\* a poll observed a state, the next poll failed, and the poll after it
\* observed the same state again: the one event of the first poll is all
\* the poller has appended
C37_Witness ==
    \E r \in RefIds :
        /\ poller[r].pc = "sleep"
        /\ poller[r].failed_before >= 1 /\ poller[r].failed_polls = 0
        /\ poller[r].last_observed = poller[r].last_motion_state
        /\ poller[r].appended = 1

-----------------------------------------------------------------------------
(* Properties of a PullMessages that overlaps an Unsubscribe, under        *)
(* SpecRace.                                                               *)

\* task t is inside pull_messages, past the lookup of its subscription
Pulling(t) == task[t].pc \in {"pull_loop", "pull_lock", "pull_drain", "pull_sleep"}

\* the record of the subscription task t pulls from is gone from the table
Removed(t) == task[t].sub_ref \notin DOMAIN subscriptions

\* a call that is past its lookup goes on and ends with a
\* PullMessagesResponse, with the record in the table or not; the end of an
\* Unsubscribe removes the record and touches no other task
C38_Step(t) ==
    /\ Pulling(t) =>
        /\ task'[t].pc \in {"pull_loop", "pull_lock", "pull_drain", "pull_sleep", "done"}
        /\ task'[t].pc = "done"
            => task'[t].status = 200 /\ task'[t].body = "PullMessagesResponse"
    /\ (task[t].pc = "camera_call" /\ task[t].op = "Unsubscribe" /\ task'[t].pc = "done")
        => /\ task[t].sub_ref \notin DOMAIN subscriptions'
           /\ \A u \in Tasks \ {t} : task'[u] = task[u]
           /\ event_cache' = event_cache /\ cache_lock' = cache_lock /\ poller' = poller

\* the camera has answered an Unsubscribe: the handler can take its next
\* step, the removal, whatever the other tasks are doing
C38_NoWait ==
    \A t \in Tasks :
        (task[t].pc = "camera_call" /\ task[t].op = "Unsubscribe")
            => ENABLED CameraRespond(t, [kind |-> "ok", doc |-> 1])

(* C38: a pullMessages call that looked up its subscription before a       *)
(* concurrent unsubscribe removed the record still completes with a        *)
(* PullMessagesResponse and may return events appended after the removal;  *)
(* it never gets a not-found error midway, and the unsubscribe never waits *)
(* for it.                                                                 *)
C38_PullSurvivesUnsubscribe ==
    /\ []C38_NoWait
    /\ [][\A t \in Tasks : C38_Step(t)]_vars

\* a call began while the cache was empty; the Unsubscribe of the other
\* client ended before the next poll; that poll appended an event, and the
\* call has returned it
C38_Witness ==
    \E t, u \in Tasks :
        /\ task[t].pc = "done" /\ task[t].op = "PullMessages" /\ task[t].status = 200
        /\ Removed(t)
        /\ task[u].pc = "done" /\ task[u].op = "Unsubscribe" /\ task[u].status = 200
        /\ task[u].sub_ref = task[t].sub_ref
        /\ task[t].start <= task[u].ended
        /\ task[u].ended < RaceStart + PollIntervalMs
        /\ task[t].ended >= RaceStart + PollIntervalMs
        /\ SeqsOf(task[t].events) = {CacheCapacity}

\* a call waits inside pull_messages while the record is already gone
C38_PullingOnRemoved ==
    \E t \in Tasks : Pulling(t) /\ Removed(t) /\ task[t].pc = "pull_sleep"

-----------------------------------------------------------------------------
(* Properties of the owner of a subscription, under SpecCross.             *)

\* the request of task record rec is addressed to the route of a camera
\* other than the one its subscription was created on
Foreign(rec) ==
    /\ rec.pc # "idle"
    /\ rec.req.route = "subscription"
    /\ rec.sub_ref \in DOMAIN subscriptions
    /\ subscriptions[rec.sub_ref].camera_id # rec.req.camera_id

(* C39: events cached for a subscription created on camera A are returned  *)
(* only to requests addressed to camera A's route: a pullMessages, renew   *)
(* or unsubscribe sent to /onvif/{B}/subscription/{ref} with B other than  *)
(* the owner neither returns A's events nor changes or removes A's         *)
(* subscription.                                                           *)
C39_OwnerOnly ==
    [][\A t \in Tasks : Foreign(task[t]) =>
            /\ subscriptions' = subscriptions
            /\ task'[t].events = <<>>]_vars

\* a PullMessages sent to the route of camB has returned events of camA
C39_ForeignPull ==
    \E t \in Tasks :
        /\ task[t].pc = "done" /\ task[t].op = "PullMessages" /\ task[t].status = 200
        /\ task[t].req.camera_id = "camB"
        /\ task[t].events # <<>>
        /\ \A i \in 1..Len(task[t].events) : task[t].events[i].event_xml.source = "camA"

\* an Unsubscribe sent to the route of camB has removed the record of camA
C39_ForeignUnsubscribe ==
    \E t \in Tasks :
        /\ task[t].pc = "done" /\ task[t].op = "Unsubscribe" /\ task[t].status = 200
        /\ task[t].req.camera_id = "camB"
        /\ poller[task[t].sub_ref].camera_id = "camA"
        /\ task[t].sub_ref \notin DOMAIN subscriptions

\* a Renew sent to the route of camB has extended the record of camA
C39_ForeignRenew ==
    \E t \in Tasks :
        /\ task[t].pc = "done" /\ task[t].op = "Renew" /\ task[t].status = 200
        /\ task[t].req.camera_id = "camB"
        /\ task[t].sub_ref \in DOMAIN subscriptions
        /\ subscriptions[task[t].sub_ref].camera_id = "camA"
        /\ subscriptions[task[t].sub_ref].expires_at = now + 1000 * LifetimeSecs
        /\ now > subscriptions[task[t].sub_ref]._created_at

\* requests on the owner's route are not held to this
C39_OwnerPull ==
    \E t \in Tasks :
        /\ task[t].pc = "done" /\ task[t].op = "PullMessages" /\ task[t].status = 200
        /\ task[t].req.camera_id = "camA"
        /\ task[t].events # <<>>

-----------------------------------------------------------------------------
(* Properties of delivery, under SpecFair.                                 *)

\* the events a poll of this behaviour can append first
FairEvents == {CacheCapacity, CacheCapacity + 1}

\* the event with sequence number n waits in the cache of r1
Cached(n) == n \in SeqsOf(event_cache["r1"])

\* a call has returned the event with sequence number n
ReturnedEvent(n) ==
    \E t \in Tasks : Returned(t) /\ n \in HeldBy(task[t], "r1")

\* the client has made a call that asks for no events
AskedForNone == \E t \in Tasks : Returned(t) /\ task[t].message_limit = 0

\* CacheCapacity or more events were appended after the one numbered n
Overtaken(n) == poller["r1"].appended - n >= CacheCapacity

====
